---- MODULE Spec2Model ----
(***************************************************************************)
(* Model of the chess engine in chess/chess.py: the piece catalog, the      *)
(* per-kind move predicates, and the Board operations add_piece,            *)
(* remove_piece, move_piece, in_check and copy.                             *)
(*                                                                         *)
(* A piece is a record [index, color, position]; index is the class        *)
(* attribute `index` of the piece's class, so it identifies the class       *)
(* (name, char, points).  The catalog all_pieces holds one object per       *)
(* (slot, color, row, col), every piece on a board is a catalog object,     *)
(* and the slot -> class map is one to one, so object identity (`is`)       *)
(* coincides with equality of these records.                                *)
(***************************************************************************)
EXTENDS Integers, Sequences, FiniteSets, TLC

(* ---------------------------------------------------------------- bounds *)
\* Number of move_piece calls made in one behaviour.
MaxMoves == 2

\* Longest sequence of enumerated moves played in a row.
MaxPlies == 5

\* Number of moves made in the loop of main.py, both sides counted.
MaxTurns == 4

(* ------------------------------------------------------------- constants *)
WHITE == 0
BLACK == 1

KING == 0
QUEEN == 1
ROOK == 2
BISHOP == 3
KNIGHT == 4
PAWN == 5

\* Width of the board: range(8), [None] * 8, np.empty((6, 2, 8, 8)).
Size == 8

Colors == {WHITE, BLACK}
Rows == 0 .. (Size - 1)

\* Python's None.
None == [none |-> TRUE]

\* Outcome of a call: it returned, or the exception it raised.
NoError == "none"
ValueError == "ValueError"
AttributeError == "AttributeError"
IndexError == "IndexError"

(* -------------------------------------------------------------- Position *)
Position(row, col) == [row |-> row, col |-> col]

\* Position.__add__
Position_add(self, pair) == Position(self.row + pair[1], self.col + pair[2])

\* Position.__str__ indexes "abcdefgh" with col and "12345678" with row: a
\* string index outside -Size .. Size-1 raises IndexError.
Position_str_raises(self) ==
    ~(-Size <= self.col /\ self.col < Size /\ -Size <= self.row /\ self.row < Size)

\* Position.in_range
in_range(self) == 0 <= self.row /\ self.row < Size /\ 0 <= self.col /\ self.col < Size

(* ---------------------------------------------------------------- pieces *)
\* An instance of the class whose `index` attribute is index.
Piece(index, color, position) ==
    [index |-> index, color |-> color, position |-> position]

\* The class attribute `name` of each piece class.
name(piece) ==
    CASE piece.index = KING   -> "king"
      [] piece.index = QUEEN  -> "queen"
      [] piece.index = ROOK   -> "rook"
      [] piece.index = BISHOP -> "bishop"
      [] piece.index = KNIGHT -> "knight"
      [] piece.index = PAWN   -> "pawn"

\* The class attribute `char` of each piece class.
char(piece) ==
    CASE piece.index = KING   -> "K"
      [] piece.index = QUEEN  -> "Q"
      [] piece.index = ROOK   -> "R"
      [] piece.index = BISHOP -> "B"
      [] piece.index = KNIGHT -> "N"
      [] piece.index = PAWN   -> "P"

\* Piece.__str__: the colour letter, the class's char and the square.
Piece_str(piece) ==
    <<IF piece.color = BLACK THEN "b" ELSE "w", char(piece), piece.position>>

\* The class attribute `points` of each piece class.
points(piece) ==
    CASE piece.index = KING   -> 9001
      [] piece.index = QUEEN  -> 9
      [] piece.index = ROOK   -> 5
      [] piece.index = BISHOP -> 3
      [] piece.index = KNIGHT -> 3
      [] piece.index = PAWN   -> 1

\* generate_all_pieces: types = [King, Queen, Rook, Knight, Bishop, Pawn],
\* given here by the `index` attribute of each class, in list order.
types == <<KING, QUEEN, ROOK, KNIGHT, BISHOP, PAWN>>

\* numpy indexing of one axis of length Size: a negative index counts from
\* the end, anything outside -Size .. Size-1 raises IndexError.
numpy_index_ok(i) == -Size <= i /\ i < Size
numpy_index(i) == IF i < 0 THEN i + Size ELSE i

\* all_pieces[t][color][row][col]: slot t of the catalog holds types[t] objects.
all_pieces(t, color, row, col) ==
    Piece(types[t + 1], color, Position(numpy_index(row), numpy_index(col)))

\* locate_piece handing out an object of the class named by the kind
\* constant, whatever slot of the catalog holds that class.
locate_piece_of_kind(type, color, position) ==
    Piece(type, color, Position(numpy_index(position.row), numpy_index(position.col)))

\* locate_piece
locate_piece(type, color, position) ==
    all_pieces(type, color, position.row, position.col)

(* ----------------------------------------------------------------- Board *)
\* A Board object: self.board, self.kings, self.en_passant,
\* self.queen_side_castle, self.king_side_castle.

\* Board.__init__(empty=True)
EmptyBoard ==
    [board             |-> [i \in Rows |-> [j \in Rows |-> None]],
     kings             |-> [c \in Colors |-> None],
     en_passant        |-> None,
     queen_side_castle |-> [c \in Colors |-> TRUE],
     king_side_castle  |-> [c \in Colors |-> TRUE]]

\* get_piece with only the upper edge tested, so that a negative
\* coordinate indexes the lists from their end.
get_piece_raises_upper_only(position) ==
    ~(position.row < Size /\ position.col < Size)

\* Board.get_piece raises for a position that is not in range ...
get_piece_raises(position) == ~in_range(position)

\* ... a ValueError whose message is formatted from the position, or the
\* IndexError that formatting it raises.
get_piece_error(position) ==
    IF Position_str_raises(position) THEN IndexError ELSE ValueError

\* ... and otherwise returns the occupant of the cell.
get_piece(self, position) == self.board[position.row][position.col]

\* Board.add_piece
add_piece(self, piece) ==
    LET placed == [self EXCEPT !.board[piece.position.row][piece.position.col] = piece]
    IN  IF name(piece) = "king"
          THEN [placed EXCEPT !.kings[piece.color] = piece]
          ELSE placed

\* Board.remove_piece
remove_piece(self, position) ==
    [self EXCEPT !.board[position.row][position.col] = None]

\* The add_piece calls of Board.__init__, in program order.
InitialPieces ==
    <<all_pieces(ROOK, WHITE, 0, 0), all_pieces(KNIGHT, WHITE, 0, 1),
      all_pieces(BISHOP, WHITE, 0, 2), all_pieces(QUEEN, WHITE, 0, 3),
      all_pieces(KING, WHITE, 0, 4), all_pieces(BISHOP, WHITE, 0, 5),
      all_pieces(KNIGHT, WHITE, 0, 6), all_pieces(ROOK, WHITE, 0, 7),
      all_pieces(ROOK, BLACK, 7, 0), all_pieces(KNIGHT, BLACK, 7, 1),
      all_pieces(BISHOP, BLACK, 7, 2), all_pieces(QUEEN, BLACK, 7, 3),
      all_pieces(KING, BLACK, 7, 4), all_pieces(BISHOP, BLACK, 7, 5),
      all_pieces(KNIGHT, BLACK, 7, 6), all_pieces(ROOK, BLACK, 7, 7)>>
    \o [n \in 1 .. (2 * Size) |->
          IF n % 2 = 1 THEN all_pieces(PAWN, WHITE, 1, (n - 1) \div 2)
                       ELSE all_pieces(PAWN, BLACK, 6, (n - 1) \div 2)]

RECURSIVE add_pieces(_, _)
add_pieces(self, pieces) ==
    IF pieces = <<>> THEN self
    ELSE add_pieces(add_piece(self, Head(pieces)), Tail(pieces))

\* Board.__init__()
NewBoard == add_pieces(EmptyBoard, InitialPieces)

\* copy without the two lines that copy the rights: the copy keeps the
\* rights Board(empty=True) gave it.
copy_fresh_rights(self) ==
    [EmptyBoard EXCEPT
        !.board      = [i \in Rows |-> [j \in Rows |-> self.board[i][j]]],
        !.en_passant = self.en_passant,
        !.kings      = [c \in Colors |-> self.kings[c]]]

\* Board.copy: a fresh empty board whose rows, kings and rights are copies
\* of self's and whose en_passant is self's.
copy(self) ==
    [EmptyBoard EXCEPT
        !.board             = [i \in Rows |-> [j \in Rows |-> self.board[i][j]]],
        !.en_passant        = self.en_passant,
        !.kings             = [c \in Colors |-> self.kings[c]],
        !.king_side_castle  = [c \in Colors |-> self.king_side_castle[c]],
        !.queen_side_castle = [c \in Colors |-> self.queen_side_castle[c]]]

\* Board.is_consistent: the two asserts hold for every occupied cell.
is_consistent(self) ==
    \A i \in Rows : \A j \in Rows :
        LET piece == self.board[i][j]
        IN  piece # None => (piece.position.row = i /\ piece.position.col = j)

(* ------------------------------------------------------- piece behaviour *)
abs(x) == IF x < 0 THEN -x ELSE x
max(x, y) == IF x < y THEN y ELSE x

\* piece_is_blocked_straight looking from the second square of the path on.
piece_is_blocked_straight_from_second(piece, position, board) ==
    LET row_change == position.row - piece.position.row
        col_change == position.col - piece.position.col
        n == abs(row_change)
        m == abs(col_change)
    IN  IF n = 0 \/ m = 0
          THEN LET row_unit == IF n = 0 THEN 0 ELSE row_change \div n
                   col_unit == IF m = 0 THEN 0 ELSE col_change \div m
                   path_length == max(n, m)
               IN  \E i \in 2 .. (path_length - 1) :
                      get_piece(board, Position_add(piece.position,
                                    <<row_unit * i, col_unit * i>>)) # None
          ELSE TRUE

\* piece_is_blocked_straight
piece_is_blocked_straight(piece, position, board) ==
    LET row_change == position.row - piece.position.row
        col_change == position.col - piece.position.col
        n == abs(row_change)
        m == abs(col_change)
    IN  IF n = 0 \/ m = 0
          THEN LET row_unit == IF n = 0 THEN 0 ELSE row_change \div n
                   col_unit == IF m = 0 THEN 0 ELSE col_change \div m
                   path_length == max(n, m)
               IN  \E i \in 1 .. (path_length - 1) :
                      get_piece(board, Position_add(piece.position,
                                    <<row_unit * i, col_unit * i>>)) # None
          ELSE TRUE

\* piece_is_blocked_diagonal
piece_is_blocked_diagonal(piece, position, board) ==
    LET row_change == position.row - piece.position.row
        col_change == position.col - piece.position.col
        n == abs(row_change)
        m == abs(col_change)
    IN  IF n = m /\ n # 0
          THEN LET row_unit == row_change \div n
                   col_unit == col_change \div m
               IN  \E i \in 1 .. (n - 1) :
                      get_piece(board, Position_add(piece.position,
                                    <<row_unit * i, col_unit * i>>)) # None
          ELSE TRUE

\* Pawn.is_valid with the two-row advance open to a pawn on any row.
Pawn_is_valid_from_any_row(self, position, board) ==
    LET unit == IF self.color = WHITE THEN 1 ELSE -1
        target == get_piece(board, position)
        mod_pos == Position_add(position, <<-unit, 0>>)
    IN  \/ position = Position_add(self.position, <<unit, 0>>) /\ target = None
        \/ /\ position = Position_add(self.position, <<2 * unit, 0>>)
           /\ get_piece(board, Position_add(self.position, <<unit, 0>>)) = None
           /\ target = None
        \/ /\ \/ position = Position_add(self.position, <<unit, 1>>)
              \/ position = Position_add(self.position, <<unit, -1>>)
           /\ \/ target # None /\ target.color # self.color
              \/ /\ get_piece(board, mod_pos) # None
                 /\ get_piece(board, mod_pos).color # self.color
                 /\ get_piece(board, mod_pos) = board.en_passant

\* Pawn.is_valid
Pawn_is_valid(self, position, board) ==
    LET unit == IF self.color = WHITE THEN 1 ELSE -1
        start == IF self.color = WHITE THEN 1 ELSE 6
        target == get_piece(board, position)
        mod_pos == Position_add(position, <<-unit, 0>>)
    IN  \/ position = Position_add(self.position, <<unit, 0>>) /\ target = None
        \/ /\ position = Position_add(self.position, <<2 * unit, 0>>)
           /\ self.position.row = start
           /\ get_piece(board, Position_add(self.position, <<unit, 0>>)) = None
           /\ target = None
        \/ /\ \/ position = Position_add(self.position, <<unit, 1>>)
              \/ position = Position_add(self.position, <<unit, -1>>)
           /\ \/ target # None /\ target.color # self.color
              \/ /\ get_piece(board, mod_pos) # None
                 /\ get_piece(board, mod_pos).color # self.color
                 /\ get_piece(board, mod_pos) = board.en_passant

\* Bishop.is_valid
Bishop_is_valid(self, position, board) ==
    LET target == get_piece(board, position)
    IN  /\ ~piece_is_blocked_diagonal(self, position, board)
        /\ ~(target # None /\ target.color = self.color)

\* Knight.is_valid
Knight_is_valid(self, position, board) ==
    LET row_change == abs(self.position.row - position.row)
        col_change == abs(self.position.col - position.col)
        target == get_piece(board, position)
    IN  /\ \/ row_change = 2 /\ col_change = 1
           \/ row_change = 1 /\ col_change = 2
        /\ ~(target # None /\ target.color = self.color)

\* Rook.is_valid
Rook_is_valid(self, position, board) ==
    LET target == get_piece(board, position)
    IN  /\ ~piece_is_blocked_straight(self, position, board)
        /\ ~(target # None /\ target.color = self.color)

\* Queen.is_valid
Queen_is_valid(self, position, board) ==
    /\ ~(/\ piece_is_blocked_straight(self, position, board)
         /\ piece_is_blocked_diagonal(self, position, board))
    /\ ~(/\ get_piece(board, position) # None
         /\ get_piece(board, position).color = self.color)

\* King.is_valid
King_is_valid(self, position, board) ==
    LET row_change == abs(position.row - self.position.row)
        col_change == abs(position.col - self.position.col)
    IN  /\ ~(row_change = 0 /\ col_change = 0)
        /\ ~(row_change > 1 \/ col_change > 1)
        /\ ~(/\ get_piece(board, position) # None
             /\ get_piece(board, position).color = self.color)

\* piece.is_valid(position, board), dispatched on the piece's class.
is_valid(piece, position, board) ==
    CASE piece.index = KING   -> King_is_valid(piece, position, board)
      [] piece.index = QUEEN  -> Queen_is_valid(piece, position, board)
      [] piece.index = ROOK   -> Rook_is_valid(piece, position, board)
      [] piece.index = BISHOP -> Bishop_is_valid(piece, position, board)
      [] piece.index = KNIGHT -> Knight_is_valid(piece, position, board)
      [] piece.index = PAWN   -> Pawn_is_valid(piece, position, board)

\* Board.in_check reads self.kings[color].position for the first piece of
\* the other colour it meets: AttributeError when the cache entry is None.
in_check_raises(self, color) ==
    /\ self.kings[color] = None
    /\ \E i \in Rows : \E j \in Rows :
          self.board[i][j] # None /\ self.board[i][j].color # color

\* in_check skipping the pieces of the other colour instead of color's own.
in_check_own_pieces(self, color) ==
    \E i \in Rows : \E j \in Rows :
        LET piece == self.board[i][j]
        IN  /\ piece # None
            /\ piece.color = color
            /\ is_valid(piece, self.kings[color].position, self)

\* Board.in_check
in_check(self, color) ==
    \E i \in Rows : \E j \in Rows :
        LET piece == self.board[i][j]
        IN  /\ piece # None
            /\ piece.color # color
            /\ is_valid(piece, self.kings[color].position, self)

(* -------------------------------------------------------- Piece.valid_pos *)
\* The while loop of Bishop, Rook and Queen valid_pos along one unit: the
\* squares from the one after cur up to the first occupied one, which is
\* listed when it holds a piece of the other colour.
RECURSIVE valid_pos_along(_, _, _, _)
valid_pos_along(piece, board, unit, cur) ==
    LET next == Position_add(cur, unit)
    IN  IF ~in_range(next) THEN <<>>
        ELSE IF get_piece(board, next) # None
          THEN IF get_piece(board, next).color # piece.color THEN <<next>> ELSE <<>>
        ELSE <<next>> \o valid_pos_along(piece, board, unit, next)

\* The for loop over the units of a sliding piece, from the n-th unit on.
RECURSIVE valid_pos_slide(_, _, _, _)
valid_pos_slide(piece, board, units, n) ==
    IF n > Len(units) THEN <<>>
    ELSE valid_pos_along(piece, board, units[n], piece.position)
           \o valid_pos_slide(piece, board, units, n + 1)

\* The for loop over the units of a Knight or a King, from the n-th unit
\* on: a square in range that is empty or holds a piece of the other colour.
RECURSIVE valid_pos_step(_, _, _, _)
valid_pos_step(piece, board, units, n) ==
    IF n > Len(units) THEN <<>>
    ELSE LET cur == Position_add(piece.position, units[n])
             here == IF ~in_range(cur) THEN <<>>
                     ELSE IF /\ get_piece(board, cur) # None
                             /\ get_piece(board, cur).color = piece.color
                       THEN <<>>
                     ELSE <<cur>>
         IN  here \o valid_pos_step(piece, board, units, n + 1)

Bishop_units == <<<<1, 1>>, <<1, -1>>, <<-1, 1>>, <<-1, -1>>>>
Rook_units == <<<<1, 0>>, <<0, 1>>, <<-1, 0>>, <<0, -1>>>>
Queen_units == Rook_units \o Bishop_units
Knight_units ==
    <<<<1, 2>>, <<2, 1>>, <<-1, 2>>, <<2, -1>>,
      <<1, -2>>, <<-2, 1>>, <<-1, -2>>, <<-2, -1>>>>
King_units ==
    <<<<1, 0>>, <<1, 1>>, <<0, 1>>, <<-1, 1>>,
      <<-1, 0>>, <<-1, -1>>, <<0, -1>>, <<1, -1>>>>

Bishop_valid_pos(piece, board) == valid_pos_slide(piece, board, Bishop_units, 1)
Rook_valid_pos(piece, board) == valid_pos_slide(piece, board, Rook_units, 1)
Queen_valid_pos(piece, board) == valid_pos_slide(piece, board, Queen_units, 1)
Knight_valid_pos(piece, board) == valid_pos_step(piece, board, Knight_units, 1)
King_valid_pos(piece, board) == valid_pos_step(piece, board, King_units, 1)

\* Pawn.valid_pos asks board.get_piece(forward_one) without a range test.
Pawn_valid_pos_raises(piece, board) ==
    get_piece_raises(
        Position_add(piece.position, <<IF piece.color = WHITE THEN 1 ELSE -1, 0>>))

\* The attack part of Pawn.valid_pos for one diagonal square p.
Pawn_valid_pos_attack(piece, board, p) ==
    LET unit == IF piece.color = WHITE THEN 1 ELSE -1
        ep == Position_add(p, <<-unit, 0>>)
    IN  IF ~in_range(p) THEN <<>>
        ELSE IF get_piece(board, p) # None /\ get_piece(board, p).color # piece.color
          THEN <<p>>
        ELSE IF get_piece(board, ep) # None /\ get_piece(board, ep) = board.en_passant
          THEN <<p>>
        ELSE <<>>

\* Pawn.valid_pos, where it does not raise.
Pawn_valid_pos(piece, board) ==
    LET unit == IF piece.color = WHITE THEN 1 ELSE -1
        start == IF piece.color = WHITE THEN 1 ELSE 6
        forward_one == Position_add(piece.position, <<unit, 0>>)
        forward_two == Position_add(piece.position, <<2 * unit, 0>>)
        forward ==
            IF get_piece(board, forward_one) # None THEN <<>>
            ELSE IF piece.position.row = start /\ get_piece(board, forward_two) = None
              THEN <<forward_one, forward_two>>
            ELSE <<forward_one>>
    IN  forward
          \o Pawn_valid_pos_attack(piece, board, Position_add(piece.position, <<unit, -1>>))
          \o Pawn_valid_pos_attack(piece, board, Position_add(piece.position, <<unit, 1>>))

\* piece.valid_pos(board) raises (only a pawn's does).
valid_pos_raises(piece, board) ==
    piece.index = PAWN /\ Pawn_valid_pos_raises(piece, board)

\* The exception of that get_piece call.
valid_pos_error(piece, board) ==
    get_piece_error(
        Position_add(piece.position, <<IF piece.color = WHITE THEN 1 ELSE -1, 0>>))

\* piece.valid_pos(board), dispatched on the piece's class.
valid_pos(piece, board) ==
    CASE piece.index = KING   -> King_valid_pos(piece, board)
      [] piece.index = QUEEN  -> Queen_valid_pos(piece, board)
      [] piece.index = ROOK   -> Rook_valid_pos(piece, board)
      [] piece.index = BISHOP -> Bishop_valid_pos(piece, board)
      [] piece.index = KNIGHT -> Knight_valid_pos(piece, board)
      [] piece.index = PAWN   -> Pawn_valid_pos(piece, board)

(* --------------------------------------------------- Board.compute_score *)
\* The body of the loops with the else branch missing: only color's own
\* pieces count.
compute_score_cell_own_only(p, color) ==
    IF p = None THEN 0
    ELSE IF p.color = color THEN points(p)
    ELSE 0

\* The body of the two loops: what one cell adds to the score.
compute_score_cell(p, color) ==
    IF p = None THEN 0
    ELSE IF p.color = color THEN points(p)
    ELSE 0 - points(p)

\* The inner loop, for j in range(8), from column j on.
RECURSIVE compute_score_row(_, _, _, _)
compute_score_row(self, color, i, j) ==
    IF j = Size THEN 0
    ELSE compute_score_cell(self.board[i][j], color)
           + compute_score_row(self, color, i, j + 1)

\* The outer loop, for i in range(8), from row i on.
RECURSIVE compute_score_rows(_, _, _)
compute_score_rows(self, color, i) ==
    IF i = Size THEN 0
    ELSE compute_score_row(self, color, i, 0)
           + compute_score_rows(self, color, i + 1)

\* Board.compute_score
compute_score(self, color) == compute_score_rows(self, color, 0)

(* ------------------------------------------------------ Board.move_piece *)
\* What a call leaves behind: the board object after the call, the
\* exception raised (NoError when the call returned) and the value returned.
Outcome(self, err, ret) == [self |-> self, err |-> err, ret |-> ret]

\* handle_en_passant keeping the record the pawn had on its start row.
handle_en_passant_start_record(self, piece, position) ==
    IF name(piece) = "pawn"
      THEN LET unit == IF piece.color = WHITE THEN 1 ELSE -1
               start == IF piece.color = WHITE THEN 1 ELSE 6
           IN  IF piece.position.row = start /\ position.row = start + 2 * unit
                 THEN IF numpy_index_ok(position.row) /\ numpy_index_ok(position.col)
                        THEN Outcome([self EXCEPT !.en_passant = piece],
                                     NoError, None)
                        ELSE Outcome(self, IndexError, None)
                 ELSE Outcome(self, NoError, None)
      ELSE Outcome([self EXCEPT !.en_passant = None], NoError, None)

\* move_piece, "Handle En passant": a pawn leaving its start row for the row
\* two ahead becomes the en-passant target, any other pawn move leaves the
\* target as it is, a move of any other piece clears it.  The catalog is
\* indexed with the destination before its range is checked.
handle_en_passant(self, piece, position) ==
    IF name(piece) = "pawn"
      THEN LET unit == IF piece.color = WHITE THEN 1 ELSE -1
               start == IF piece.color = WHITE THEN 1 ELSE 6
           IN  IF piece.position.row = start /\ position.row = start + 2 * unit
                 THEN IF numpy_index_ok(position.row) /\ numpy_index_ok(position.col)
                        THEN Outcome([self EXCEPT !.en_passant =
                                        all_pieces(piece.index, piece.color,
                                                   position.row, position.col)],
                                     NoError, None)
                        ELSE Outcome(self, IndexError, None)
                 ELSE Outcome(self, NoError, None)
      ELSE Outcome([self EXCEPT !.en_passant = None], NoError, None)

\* handle_castling with the king clearing its queen-side right only.
handle_castling_queen_side_only(self, piece) ==
    LET king == IF name(piece) = "king"
                  THEN [self EXCEPT !.queen_side_castle[piece.color] = FALSE]
                  ELSE self
        rook0 == IF name(piece) = "rook" /\ piece.position.row = 0
                   THEN [king EXCEPT !.queen_side_castle[piece.color] = FALSE]
                   ELSE king
    IN  IF name(piece) = "rook" /\ piece.position.row = 7
          THEN [rook0 EXCEPT !.king_side_castle[piece.color] = FALSE]
          ELSE rook0

\* move_piece, "Handle Castling": the rights cleared by moving a king or a rook.
handle_castling(self, piece) ==
    LET king == IF name(piece) = "king"
                  THEN [self EXCEPT !.queen_side_castle[piece.color] = FALSE,
                                    !.king_side_castle[piece.color] = FALSE]
                  ELSE self
        rook0 == IF name(piece) = "rook" /\ piece.position.row = 0
                   THEN [king EXCEPT !.queen_side_castle[piece.color] = FALSE]
                   ELSE king
    IN  IF name(piece) = "rook" /\ piece.position.row = 7
          THEN [rook0 EXCEPT !.king_side_castle[piece.color] = FALSE]
          ELSE rook0

\* move_piece, "En passant" (ep is true): the checks, then
\* target.remove_piece(target.position), a method no piece class has.
en_passant_branch(self, piece, position) ==
    LET behind == Position_add(position, <<-1, 0>>)
    IN  IF piece.index # PAWN THEN Outcome(self, ValueError, None)
        ELSE IF get_piece_raises(behind)
               THEN Outcome(self, get_piece_error(behind), None)
        ELSE IF get_piece(self, behind) = None
                \/ get_piece(self, behind) # self.en_passant
               THEN Outcome(self, ValueError, None)
        ELSE Outcome(self, AttributeError, None)

\* move_piece_branch with the moved object itself put on the destination
\* instead of the catalog object of the destination.
move_piece_branch_relocating(self, piece, position) ==
    IF get_piece_raises(position)
      THEN Outcome(self, get_piece_error(position), None)
    ELSE
      LET target == get_piece(self, position)
          captured == IF target # None THEN remove_piece(self, target.position)
                      ELSE self
          placed == [captured EXCEPT !.board[position.row][position.col] = piece]
          cleared == [placed EXCEPT
                        !.board[piece.position.row][piece.position.col] = None]
          cached == IF piece.index = KING
                      THEN [cleared EXCEPT !.kings[piece.color] =
                               cleared.board[position.row][position.col]]
                      ELSE cleared
      IN  Outcome(cached, NoError, cached.board[position.row][position.col])

\* The normal branch without the final clearing of the origin cell.
move_piece_branch_keeping_origin(self, piece, position) ==
    IF get_piece_raises(position)
      THEN Outcome(self, get_piece_error(position), None)
    ELSE
      LET target == get_piece(self, position)
          captured == IF target # None THEN remove_piece(self, target.position)
                      ELSE self
          placed == [captured EXCEPT !.board[position.row][position.col] =
                        all_pieces(piece.index, piece.color, position.row, position.col)]
          cached == IF piece.index = KING
                      THEN [placed EXCEPT !.kings[piece.color] =
                               placed.board[position.row][position.col]]
                      ELSE placed
      IN  Outcome(cached, NoError, cached.board[position.row][position.col])

\* move_piece, "Move piece": the capture, the catalog object put on the
\* destination, the origin cleared, the king cache.
move_piece_branch(self, piece, position) ==
    IF get_piece_raises(position)
      THEN Outcome(self, get_piece_error(position), None)
    ELSE
      LET target == get_piece(self, position)
          captured == IF target # None THEN remove_piece(self, target.position)
                      ELSE self
          placed == [captured EXCEPT !.board[position.row][position.col] =
                        all_pieces(piece.index, piece.color, position.row, position.col)]
          cleared == [placed EXCEPT
                        !.board[piece.position.row][piece.position.col] = None]
          cached == IF piece.index = KING
                      THEN [cleared EXCEPT !.kings[piece.color] =
                               cleared.board[position.row][position.col]]
                      ELSE cleared
      IN  Outcome(cached, NoError, cached.board[position.row][position.col])

\* move_piece(piece, position): the call with ep and castle left False, as
\* the castle branch makes it on the same board.
move_piece_plain(self, piece, position) ==
    LET ep_done == handle_en_passant(self, piece, position)
    IN  IF ep_done.err # NoError THEN ep_done
        ELSE move_piece_branch(handle_castling(ep_done.self, piece), piece, position)

\* in_check as the castle branch calls it: its verdict, or its exception.
castle_check(self, color, otherwise) ==
    IF in_check_raises(self, color) THEN Outcome(self, AttributeError, None)
    ELSE IF in_check(self, color) THEN Outcome(self, ValueError, None)
    ELSE otherwise

\* castle_branch returning without a word, instead of raising, when the
\* right is gone.
castle_branch_silent(self, piece, position) ==
    LET unit == IF position.col = 3 THEN -1 ELSE 1
        step == Position_add(position, <<0, unit>>)
        first == move_piece_plain(self, piece, step)
        second == move_piece_plain(first.self, piece, step)
    IN  IF piece.index # KING THEN Outcome(self, ValueError, None)
        ELSE IF position.row # piece.position.row THEN Outcome(self, ValueError, None)
        ELSE IF position.col = 3 /\ ~self.queen_side_castle[piece.color]
               THEN Outcome(self, NoError, None)
        ELSE IF position.col = 7 /\ ~self.king_side_castle[piece.color]
               THEN Outcome(self, NoError, None)
        ELSE IF position.col # 3 /\ position.col # 7
               THEN Outcome(self, ValueError, None)
        ELSE castle_check(self, piece.color,
               IF first.err # NoError THEN first
               ELSE castle_check(first.self, piece.color,
                      IF second.err # NoError THEN second
                      ELSE castle_check(second.self, piece.color,
                             Outcome(second.self, NoError, None))))

\* move_piece, "Castle" (castle is true): the checks, then two calls of
\* move_piece(piece, position + (0, unit)) with in_check around them.
castle_branch(self, piece, position) ==
    LET unit == IF position.col = 3 THEN -1 ELSE 1
        step == Position_add(position, <<0, unit>>)
        first == move_piece_plain(self, piece, step)
        second == move_piece_plain(first.self, piece, step)
    IN  IF piece.index # KING THEN Outcome(self, ValueError, None)
        ELSE IF position.row # piece.position.row THEN Outcome(self, ValueError, None)
        ELSE IF position.col = 3 /\ ~self.queen_side_castle[piece.color]
               THEN Outcome(self, ValueError, None)
        ELSE IF position.col = 7 /\ ~self.king_side_castle[piece.color]
               THEN Outcome(self, ValueError, None)
        ELSE IF position.col # 3 /\ position.col # 7
               THEN Outcome(self, ValueError, None)
        ELSE castle_check(self, piece.color,
               IF first.err # NoError THEN first
               ELSE castle_check(first.self, piece.color,
                      IF second.err # NoError THEN second
                      ELSE castle_check(second.self, piece.color,
                             Outcome(second.self, NoError, None))))

\* Board.move_piece(piece, position, ep, castle)
move_piece(self, piece, position, ep, castle) ==
    LET ep_done == handle_en_passant(self, piece, position)
        rights == handle_castling(ep_done.self, piece)
        taken == IF ep THEN en_passant_branch(rights, piece, position)
                 ELSE Outcome(rights, NoError, None)
    IN  IF ep_done.err # NoError THEN ep_done
        ELSE IF taken.err # NoError THEN taken
        ELSE IF castle THEN castle_branch(taken.self, piece, position)
        ELSE move_piece_branch(taken.self, piece, position)

(* --------------------------------------------------------- state machine *)
\* board:  the Board object under test, constructed by Board().
\* copied: <<>> until board.copy() is called, then <<the copy>>.
\* last:   the last call made: the operation, the object it was made on,
\*         its arguments, the state of that object before the call, and
\*         the exception raised and value returned.
\* moves:  the number of move_piece calls made so far.
VARIABLES board, copied, last, moves, gui

vars == <<board, copied, last, moves, gui>>

\* Squares a moved piece is taken from with get_piece: the four corners,
\* e1 and e8, b1 and c1, e2 and d7.
Sources ==
    {Position(0, 0), Position(0, 7), Position(7, 0), Position(7, 7),
     Position(0, 4), Position(7, 4), Position(0, 1), Position(0, 2),
     Position(1, 4), Position(6, 3)}

\* Destinations of plain moves: e4, d5, d6, and one column left of the board.
Targets == {Position(3, 4), Position(4, 3), Position(5, 3), Position(3, -1)}

\* Calls with ep=True: from e2, d7 and b1 to d6, e3, e5 and e1.
EpSources == {Position(1, 4), Position(6, 3), Position(0, 1)}
EpTargets == {Position(5, 3), Position(2, 4), Position(4, 4), Position(0, 4)}

\* Calls with castle=True: from e1, e8 and a1 to d1, h1, f1 and h8.
CastleSources == {Position(0, 4), Position(7, 4), Position(0, 0)}
CastleTargets == {Position(0, 3), Position(0, 7), Position(0, 5), Position(7, 7)}

Call(from, to, ep, castle) == [from |-> from, to |-> to, ep |-> ep, castle |-> castle]

Calls ==
    {Call(s, t, FALSE, FALSE) : s \in Sources, t \in Targets}
    \cup {Call(s, t, TRUE, FALSE) : s \in EpSources, t \in EpTargets}
    \cup {Call(s, t, FALSE, TRUE) : s \in CastleSources, t \in CastleTargets}

\* The module-level variables of main.py as they are set before its loop
\* (lines 62-79); shared tells that board and previous_board name one
\* and the same object.
GuiStart ==
    [turn |-> 0, start_moving |-> FALSE, start_pos |-> None,
     focus_piece_name |-> None, available_moves |-> None,
     running |-> TRUE, shared |-> FALSE]

Init ==
    /\ board = NewBoard
    /\ copied = <<>>
    /\ moves = 0
    /\ gui = GuiStart
    /\ last = [op |-> "Board", on |-> "board", piece |-> None,
               position |-> Position(0, 0), ep |-> FALSE, castle |-> FALSE,
               pre |-> NewBoard, err |-> NoError, ret |-> None]

\* The record of self.move_piece(self.get_piece(call.from), call.to, ...).
Moved(on, self, call, out) ==
    [op |-> "move_piece", on |-> on, piece |-> get_piece(self, call.from),
     position |-> call.to, ep |-> call.ep, castle |-> call.castle,
     pre |-> self, err |-> out.err, ret |-> out.ret]

\* board.move_piece(board.get_piece(from), to, ep, castle)
MovePiece ==
    /\ moves < MaxMoves
    /\ \E call \in Calls :
          /\ get_piece(board, call.from) # None
          /\ LET out == move_piece(board, get_piece(board, call.from),
                                   call.to, call.ep, call.castle)
             IN  /\ board' = out.self
                 /\ last' = Moved("board", board, call, out)
    /\ moves' = moves + 1
    /\ UNCHANGED copied
    /\ UNCHANGED gui

\* The same call made on the copy.
MovePieceOnCopy ==
    /\ moves < MaxMoves
    /\ copied # <<>>
    /\ \E call \in Calls :
          /\ get_piece(copied[1], call.from) # None
          /\ LET out == move_piece(copied[1], get_piece(copied[1], call.from),
                                   call.to, call.ep, call.castle)
             IN  /\ copied' = <<out.self>>
                 /\ last' = Moved("copy", copied[1], call, out)
    /\ moves' = moves + 1
    /\ UNCHANGED board
    /\ UNCHANGED gui

\* copied = board.copy()
Copy ==
    /\ copied' = <<copy(board)>>
    /\ last' = [op |-> "copy", on |-> "board", piece |-> None,
                position |-> Position(0, 0), ep |-> FALSE, castle |-> FALSE,
                pre |-> board, err |-> NoError, ret |-> None]
    /\ UNCHANGED <<board, moves>>
    /\ UNCHANGED gui

Next == MovePiece \/ MovePieceOnCopy \/ Copy

Spec == Init /\ [][Next]_vars

\* The object the last call was made on, as the call left it.
Subject == IF last.on = "board" THEN board ELSE copied[1]

(* ---------------------------------------------------------------- claims *)
\* The last call was move_piece and it returned.
Returned == last.op = "move_piece" /\ last.err = NoError

\* The last call was a move_piece with ep and castle left False that returned.
NormalMove == Returned /\ ~last.ep /\ ~last.castle

\* Forward direction and start row of a colour's pawns.
Forward(color) == IF color = WHITE THEN 1 ELSE -1
StartRow(color) == IF color = WHITE THEN 1 ELSE 6

\* The call moves a pawn from its start row to the row two ahead.
DoubleStep(piece, position) ==
    /\ piece.index = PAWN
    /\ piece.position.row = StartRow(piece.color)
    /\ position.row = StartRow(piece.color) + 2 * Forward(piece.color)

\* The square directly behind position, seen from a mover of that colour.
Behind(color, position) == Position_add(position, <<-Forward(color), 0>>)

\* C1: after any sequence of move_piece calls from the initial board, every
\* occupied cell (r, c) holds a record whose own position is (r, c).
C1_CellIdentity ==
    /\ is_consistent(board)
    /\ copied # <<>> => is_consistent(copied[1])

\* A second move in a row has put a piece that stood elsewhere on its destination.
C1_Witness ==
    /\ NormalMove
    /\ moves >= 2
    /\ last.piece.position # last.position
    /\ get_piece(Subject, last.position) # None

\* C2: a normal move of the occupant returned by get_piece leaves on the
\* destination a record of the same kind and the same colour.
C2_KindPreserved ==
    NormalMove =>
        /\ last.ret # None
        /\ last.ret.index = last.piece.index
        /\ last.ret.color = last.piece.color
        /\ get_piece(Subject, last.position) = last.ret

\* C3: after a move_piece call that is not a two-square pawn advance from
\* the start row, the en-passant target is empty.
C3_EnPassantOneMove ==
    (Returned /\ ~DoubleStep(last.piece, last.position))
        => Subject.en_passant = None

\* C4: an ep=True call by a pawn, with the square behind the destination
\* (from the mover's side) holding the en-passant target, succeeds: the
\* captured pawn is gone and the capturing pawn stands on the destination.
C4_EnPassantCapture ==
    (/\ last.op = "move_piece"
     /\ last.ep /\ ~last.castle
     /\ last.piece.index = PAWN
     /\ in_range(last.position)
     /\ in_range(Behind(last.piece.color, last.position))
     /\ last.pre.en_passant # None
     /\ get_piece(last.pre, Behind(last.piece.color, last.position))
            = last.pre.en_passant)
    => /\ last.err = NoError
       /\ get_piece(Subject, Behind(last.piece.color, last.position)) = None
       /\ get_piece(Subject, last.position) # None
       /\ get_piece(Subject, last.position).index = PAWN
       /\ get_piece(Subject, last.position).color = last.piece.color

\* Some piece of the other colour accepts position as a destination.
Attacked(self, color, position) ==
    \E i \in Rows : \E j \in Rows :
        /\ self.board[i][j] # None
        /\ self.board[i][j].color # color
        /\ is_valid(self.board[i][j], position, self)

\* The columns a king crosses or lands on when castling from column 4.
CastlePath(col) == IF col = 3 THEN {3} ELSE {5, 6, 7}

\* C5: a castle=True call for a king on its home square, to column 3 or 7
\* of its own row, with the right still set, the king not in check and no
\* square on its way attacked, completes and leaves the king on the
\* destination, in the grid and in the king cache.
C5_CastleCompletes ==
    (/\ last.op = "move_piece"
     /\ last.castle /\ ~last.ep
     /\ last.piece.index = KING
     /\ last.piece.position
            = Position(IF last.piece.color = WHITE THEN 0 ELSE 7, 4)
     /\ last.position.row = last.piece.position.row
     /\ last.position.col \in {3, 7}
     /\ IF last.position.col = 3
          THEN last.pre.queen_side_castle[last.piece.color]
          ELSE last.pre.king_side_castle[last.piece.color]
     /\ last.pre.kings[last.piece.color] = last.piece
     /\ ~in_check(last.pre, last.piece.color)
     /\ \A col \in CastlePath(last.position.col) :
            ~Attacked(last.pre, last.piece.color,
                      Position(last.position.row, col)))
    => /\ last.err = NoError
       /\ get_piece(Subject, last.position) # None
       /\ get_piece(Subject, last.position).index = KING
       /\ get_piece(Subject, last.position).color = last.piece.color
       /\ Subject.kings[last.piece.color] = get_piece(Subject, last.position)

\* C6: moving a rook away from its colour's queen-side corner clears that
\* colour's queen-side right, from its king-side corner the king-side right.
C6_RookClearsItsSide ==
    (/\ NormalMove
     /\ last.piece.index = ROOK
     /\ last.piece.position.row = (IF last.piece.color = WHITE THEN 0 ELSE 7)
     /\ last.piece.position # last.position)
    => /\ last.piece.position.col = 0
            => ~Subject.queen_side_castle[last.piece.color]
       /\ last.piece.position.col = 7
            => ~Subject.king_side_castle[last.piece.color]

\* Every right set in `after` is set in `before`.
NoRightRegained(before, after) ==
    \A c \in Colors :
        /\ after.queen_side_castle[c] => before.queen_side_castle[c]
        /\ after.king_side_castle[c] => before.king_side_castle[c]

\* C7: castling rights are monotone: no step sets a right of a board again
\* once it is cleared, and a copy has no right its original has cleared.
C7_RightsMonotone ==
    [][/\ NoRightRegained(board, board')
       /\ (copied # <<>> /\ last'.op # "copy")
             => NoRightRegained(copied[1], copied'[1])
       /\ last'.op = "copy" => NoRightRegained(board, copied'[1])]_vars

\* A board with a cleared right has been copied and the copy moved on.
C7_Witness ==
    /\ last.op = "move_piece"
    /\ last.on = "copy"
    /\ \E c \in Colors : ~last.pre.queen_side_castle[c]
    /\ \E c \in Colors : ~board.king_side_castle[c]

\* C8: a move_piece call whose piece is a king clears both rights of that
\* king's colour and leaves the other colour's two rights unchanged.
C8_KingClearsOwnRights ==
    (last.op = "move_piece" /\ last.piece.index = KING)
    => LET own == last.piece.color
           other == 1 - last.piece.color
       IN  /\ ~Subject.queen_side_castle[own]
           /\ ~Subject.king_side_castle[own]
           /\ Subject.queen_side_castle[other] = last.pre.queen_side_castle[other]
           /\ Subject.king_side_castle[other] = last.pre.king_side_castle[other]

\* A king has moved while it had both rights and the other colour had lost one.
C8_Witness ==
    /\ NormalMove
    /\ last.piece.index = KING
    /\ last.pre.queen_side_castle[last.piece.color]
    /\ last.pre.king_side_castle[last.piece.color]
    /\ ~last.pre.queen_side_castle[1 - last.piece.color]
    /\ last.pre.king_side_castle[1 - last.piece.color]

\* C9: when move_piece raises, the whole board state (grid, king cache,
\* castling rights, en-passant target) equals its value before the call.
C9_FailureLeavesBoard ==
    (last.op = "move_piece" /\ last.err # NoError) => Subject = last.pre

\* The special move asked for is invalid, in one of the ways C10 lists.
InvalidSpecial ==
    /\ last.op = "move_piece"
    /\ \/ last.ep /\ last.piece.index # PAWN
       \/ /\ last.ep /\ last.piece.index = PAWN
          /\ LET behind == Behind(last.piece.color, last.position)
             IN  \/ ~in_range(behind)
                 \/ get_piece(last.pre, behind) = None
                 \/ get_piece(last.pre, behind) # last.pre.en_passant
       \/ last.castle /\ last.piece.index # KING
       \/ last.castle /\ last.position.row # last.piece.position.row
       \/ last.castle /\ last.position.col \notin {3, 7}
       \/ /\ last.castle /\ last.position.col = 3
          /\ ~last.pre.queen_side_castle[last.piece.color]
       \/ /\ last.castle /\ last.position.col = 7
          /\ ~last.pre.king_side_castle[last.piece.color]

\* C10: move_piece raises an error on an invalid special move: ep by a piece
\* that is no pawn, ep with the square behind the destination not holding
\* the en-passant target, castle by a piece that is no king, castle to
\* another row or to a column other than 3 and 7, castle without the right.
C10_InvalidSpecialRaises == InvalidSpecial => last.err # NoError

\* A king whose queen-side right is gone was asked to castle queen-side.
C10_Witness ==
    /\ InvalidSpecial
    /\ last.castle
    /\ last.piece.index = KING
    /\ last.position = Position(last.piece.position.row, 3)
    /\ ~last.pre.queen_side_castle[last.piece.color]
    /\ last.err = ValueError

(* ------------------------------------------ the Board operations at large *)
\* Indexing a Python list of length Size: a negative index counts from the end.
list_index(i) == IF i < 0 THEN i + Size ELSE i

\* Board.get_piece as a call: the exception, or the cell self.board[row][col].
get_piece_call(self, position) ==
    IF get_piece_raises(position)
      THEN Outcome(self, get_piece_error(position), None)
      ELSE Outcome(self, NoError,
                   self.board[list_index(position.row)][list_index(position.col)])

\* copy appending the rows themselves (row instead of row.copy()).
copy_shares_rows == {"board"}

\* The mutable parts of a Board that a copy shares with its original.
\* Board.copy builds the row list from row.copy() and takes kings.copy(),
\* king_side_castle.copy() and queen_side_castle.copy(): it shares none.
copy_shares == {}

\* What a write to one board does to the other: a shared part is the same
\* object in both, so the other board shows the writer's value of it.
Propagate(other, written) ==
    [other EXCEPT
        !.board = IF "board" \in copy_shares THEN written.board ELSE @,
        !.kings = IF "kings" \in copy_shares THEN written.kings ELSE @,
        !.queen_side_castle =
            IF "queen_side_castle" \in copy_shares
              THEN written.queen_side_castle ELSE @,
        !.king_side_castle =
            IF "king_side_castle" \in copy_shares
              THEN written.king_side_castle ELSE @]

\* The boards a call can be made on, and the board of that name.
Boards == IF copied = <<>> THEN {"board"} ELSE {"board", "copy"}
BoardNamed(on) == IF on = "board" THEN board ELSE copied[1]

\* The two boards after a call on the board named on has left it as written.
Written(on, written) ==
    IF on = "board"
      THEN /\ board' = written
           /\ copied' = IF copied = <<>> THEN <<>>
                        ELSE <<Propagate(copied[1], written)>>
      ELSE /\ copied' = <<written>>
           /\ board' = Propagate(board, written)

\* The record of a call.
Called(op, on, piece, position, out) ==
    [op |-> op, on |-> on, piece |-> piece, position |-> position,
     ep |-> FALSE, castle |-> FALSE, pre |-> BoardNamed(on),
     err |-> out.err, ret |-> out.ret]

\* Catalog records given to add_piece: a second white king on e4, a black
\* pawn on e1 and a black queen on e2.
AddedPieces ==
    {all_pieces(KING, WHITE, 3, 4), all_pieces(PAWN, BLACK, 0, 4),
     all_pieces(QUEEN, BLACK, 1, 4)}

\* Squares given to remove_piece: e1, a2 and the empty d4.
RemovedSquares == {Position(0, 4), Position(1, 0), Position(3, 3)}

\* Squares given to get_piece: e1, d4, and one step off each edge.
AskedSquares ==
    {Position(0, 4), Position(3, 3), Position(-1, 0), Position(0, -1),
     Position(Size, 0), Position(0, Size)}

\* Plain moves of pieces standing on d8, e1 and a2, to e1 and e2.
BoardSources == {Position(7, 3), Position(0, 4), Position(1, 0)}
BoardTargets == {Position(0, 4), Position(1, 4)}

\* self.add_piece(piece)
AddPiece ==
    /\ moves < MaxMoves
    /\ \E on \in Boards : \E piece \in AddedPieces :
          LET out == Outcome(add_piece(BoardNamed(on), piece), NoError, None)
          IN  /\ Written(on, out.self)
              /\ last' = Called("add_piece", on, piece, piece.position, out)
    /\ moves' = moves + 1
    /\ UNCHANGED gui

\* self.remove_piece(position)
RemovePiece ==
    /\ moves < MaxMoves
    /\ \E on \in Boards : \E position \in RemovedSquares :
          LET out == Outcome(remove_piece(BoardNamed(on), position), NoError, None)
          IN  /\ Written(on, out.self)
              /\ last' = Called("remove_piece", on, None, position, out)
    /\ moves' = moves + 1
    /\ UNCHANGED gui

\* self.move_piece(self.get_piece(from), to)
MoveOnBoard ==
    /\ moves < MaxMoves
    /\ \E on \in Boards : \E from \in BoardSources : \E to \in BoardTargets :
          /\ get_piece(BoardNamed(on), from) # None
          /\ LET piece == get_piece(BoardNamed(on), from)
                 out == move_piece(BoardNamed(on), piece, to, FALSE, FALSE)
             IN  /\ Written(on, out.self)
                 /\ last' = Called("move_piece", on, piece, to, out)
    /\ moves' = moves + 1
    /\ UNCHANGED gui

\* self.get_piece(position)
GetPiece ==
    /\ \E on \in Boards : \E position \in AskedSquares :
          LET out == get_piece_call(BoardNamed(on), position)
          IN  /\ Written(on, out.self)
              /\ last' = Called("get_piece", on, None, position, out)
    /\ UNCHANGED moves
    /\ UNCHANGED gui

NextBoard == AddPiece \/ RemovePiece \/ MoveOnBoard \/ GetPiece \/ Copy

\* A board used through all its operations, and its copy.
SpecBoard == Init /\ [][NextBoard]_vars

(* ------------------------------------------------------- claims C11 - C20 *)
\* C11: get_piece raises an out-of-range error for every square with a row
\* or column outside 0..7, negative ones included, and for every in-range
\* square returns that cell's occupant (or none); the board is unchanged.
C11_GetPiece ==
    last.op = "get_piece" =>
        /\ Subject = last.pre
        /\ IF last.position.row \in 0 .. 7 /\ last.position.col \in 0 .. 7
             THEN /\ last.err = NoError
                  /\ last.ret = last.pre.board[last.position.row][last.position.col]
             ELSE /\ last.err \in {ValueError, IndexError}
                  /\ last.ret = None

\* get_piece was asked for a square with a negative coordinate, and raised.
C11_Witness ==
    /\ last.op = "get_piece"
    /\ last.position.row < 0 \/ last.position.col < 0
    /\ last.err # NoError

\* The king cache of a board is right: each entry is a king of its colour
\* and is the record in the grid cell at its own position.
KingCacheRight(self) ==
    \A c \in Colors :
        /\ self.kings[c] # None
        /\ self.kings[c].index = KING
        /\ self.kings[c].color = c
        /\ get_piece(self, self.kings[c].position) = self.kings[c]

\* C12: after any sequence of add_piece and move_piece calls, captures
\* included, kings[c] is a king of colour c and is the very record stored
\* in the grid cell at kings[c].position.
C12_KingCache ==
    (last.op \in {"move_piece", "add_piece"} /\ KingCacheRight(last.pre))
        => KingCacheRight(Subject)

\* The operations that write to a Board.
Mutators == {"move_piece", "add_piece", "remove_piece"}

\* C16: copy() returns a board with the same grid, king cache, castling
\* rights and en-passant target as the original and leaves the original
\* alone; a later move_piece, add_piece or remove_piece on either of the
\* two boards leaves all four parts of the other board unchanged.
C16_CopyIndependent ==
    [][ /\ last'.op = "copy" => (copied' = <<board>> /\ board' = board)
        /\ (last'.op \in Mutators /\ copied # <<>>) =>
               IF last'.on = "board" THEN copied' = copied
                                     ELSE board' = board ]_vars

\* A mutator changed one of the two boards of a copied pair, and the two
\* now differ in their grids.
C16_Witness ==
    /\ copied # <<>>
    /\ last.op \in Mutators
    /\ last.err = NoError
    /\ Subject # last.pre
    /\ board.board # copied[1].board

\* The pieces of one colour standing on a board, as squares.
SquaresOf(self, color) ==
    {sq \in Rows \X Rows :
        /\ self.board[sq[1]][sq[2]] # None
        /\ self.board[sq[1]][sq[2]].color = color}

\* The point value of the pieces of one kind and colour on a board.
MaterialOf(self, color, index) ==
    points(Piece(index, color, Position(0, 0)))
      * Cardinality({sq \in SquaresOf(self, color) :
                        self.board[sq[1]][sq[2]].index = index})

\* The sum of the point values of one colour's pieces on a board.
Material(self, color) ==
    MaterialOf(self, color, KING) + MaterialOf(self, color, QUEEN)
      + MaterialOf(self, color, ROOK) + MaterialOf(self, color, BISHOP)
      + MaterialOf(self, color, KNIGHT) + MaterialOf(self, color, PAWN)

\* C17: compute_score(color) is the sum of the points of color's pieces
\* minus the sum of the points of the other colour's pieces, so on every
\* reachable board compute_score(WHITE) = -compute_score(BLACK), and both
\* are 0 on the initial board.
C17_ScoreAntisymmetric ==
    /\ \A b \in {BoardNamed(on) : on \in Boards} :
          /\ \A c \in Colors :
                compute_score(b, c) = Material(b, c) - Material(b, 1 - c)
          /\ compute_score(b, WHITE) = 0 - compute_score(b, BLACK)
    /\ last.op = "Board" =>
          compute_score(board, WHITE) = 0 /\ compute_score(board, BLACK) = 0

\* A piece was removed or captured and the score is no longer level.
C17_Witness ==
    /\ last.op \in {"move_piece", "remove_piece"}
    /\ last.err = NoError
    /\ compute_score(Subject, WHITE) # 0
    /\ compute_score(last.pre, WHITE) # compute_score(Subject, WHITE)

\* The kinds of the standard back rank, columns a to h.
BackRank ==
    <<"rook", "knight", "bishop", "queen", "king", "bishop", "knight", "rook">>

\* The cell holds a piece of the given kind and colour, placed on it.
Holds(self, row, col, kind, color) ==
    LET p == self.board[row][col]
    IN  /\ p # None
        /\ name(p) = kind
        /\ p.color = color
        /\ p.position = Position(row, col)

\* C18: a freshly constructed Board() holds the standard starting
\* position: rook, knight, bishop, queen, king, bishop, knight, rook on
\* rows 0 (white) and 7 (black), pawns on rows 1 and 6, rows 2..5 empty,
\* all four castling rights set and no en-passant target.
C18_StartingPosition ==
    last.op = "Board" =>
        /\ \A j \in Rows :
              /\ Holds(board, 0, j, BackRank[j + 1], WHITE)
              /\ Holds(board, 1, j, "pawn", WHITE)
              /\ Holds(board, 6, j, "pawn", BLACK)
              /\ Holds(board, 7, j, BackRank[j + 1], BLACK)
              /\ \A i \in 2 .. 5 : board.board[i][j] = None
        /\ \A c \in Colors :
              board.queen_side_castle[c] /\ board.king_side_castle[c]
        /\ board.en_passant = None

\* The number of pieces standing on a board.
PieceCount(self) ==
    Cardinality({sq \in Rows \X Rows : self.board[sq[1]][sq[2]] # None})

\* C20: a normal move_piece(piece, dest) with dest different from the
\* piece's square returns the record that now occupies dest, leaves the
\* origin cell empty and every cell other than origin and dest unchanged;
\* the number of pieces falls by exactly one if dest was occupied and is
\* unchanged otherwise.
C20_NormalMoveFrame ==
    (NormalMove /\ last.piece.position # last.position) =>
        LET origin == last.piece.position
            dest   == last.position
        IN  /\ last.ret # None
            /\ last.ret = Subject.board[dest.row][dest.col]
            /\ Subject.board[origin.row][origin.col] = None
            /\ \A i, j \in Rows :
                  (Position(i, j) # origin /\ Position(i, j) # dest) =>
                      Subject.board[i][j] = last.pre.board[i][j]
            /\ PieceCount(Subject) =
                  IF last.pre.board[dest.row][dest.col] # None
                    THEN PieceCount(last.pre) - 1
                    ELSE PieceCount(last.pre)

\* A normal move from another square captured the occupant of its destination.
C20_Witness ==
    /\ NormalMove
    /\ last.piece.position # last.position
    /\ last.pre.board[last.position.row][last.position.col] # None
    /\ PieceCount(Subject) = PieceCount(last.pre) - 1

(* ------------------------------------------------- play and check queries *)
\* Squares pieces are moved from: d8, b8, c8, e1 and d2.
PlaySources ==
    {Position(7, 3), Position(7, 1), Position(7, 2), Position(0, 4), Position(1, 3)}

\* Squares they are moved to: e2, e3, d3, f3 and e1.
PlayTargets ==
    {Position(1, 4), Position(2, 4), Position(2, 3), Position(2, 5), Position(0, 4)}

\* board.move_piece(board.get_piece(from), to)
PlayMove ==
    /\ moves < MaxMoves
    /\ \E from \in PlaySources : \E to \in PlayTargets :
          /\ get_piece(board, from) # None
          /\ LET piece == get_piece(board, from)
                 out == move_piece(board, piece, to, FALSE, FALSE)
             IN  /\ board' = out.self
                 /\ last' = Called("move_piece", "board", piece, to, out)
    /\ moves' = moves + 1
    /\ UNCHANGED copied
    /\ UNCHANGED gui

\* board.in_check(color)
InCheck ==
    /\ \E color \in Colors :
          last' = [op |-> "in_check", on |-> "board", color |-> color,
                   piece |-> None, position |-> Position(0, 0),
                   ep |-> FALSE, castle |-> FALSE, pre |-> board,
                   err |-> IF in_check_raises(board, color)
                             THEN AttributeError ELSE NoError,
                   ret |-> IF in_check_raises(board, color)
                             THEN FALSE ELSE in_check(board, color)]
    /\ UNCHANGED <<board, copied, moves>>
    /\ UNCHANGED gui

NextPlay == PlayMove \/ InCheck

SpecPlay == Init /\ [][NextPlay]_vars

\* The squares of a board on which a king of the colour stands.
KingSquares(self, color) ==
    {pos \in {Position(i, j) : i \in Rows, j \in Rows} :
        /\ self.board[pos.row][pos.col] # None
        /\ self.board[pos.row][pos.col].index = KING
        /\ self.board[pos.row][pos.col].color = color}

\* The initial position after the black queen went from d8 to e2.
QueenOnE2 ==
    move_piece(NewBoard, get_piece(NewBoard, Position(7, 3)),
               Position(1, 4), FALSE, FALSE).self

\* C13: in_check(color) is true if and only if at least one piece of the
\* opposing colour has is_valid true for the square of color's king;
\* neither side is in check in the initial position, and after the black
\* queen is moved from d8 to e2 White is in check and Black is not.
C13_InCheck ==
    last.op = "in_check" =>
        /\ \A pos \in KingSquares(last.pre, last.color) :
              /\ last.err = NoError
              /\ last.ret = Attacked(last.pre, last.color, pos)
        /\ last.pre = NewBoard => (last.err = NoError /\ last.ret = FALSE)
        /\ last.pre = QueenOnE2 =>
              (last.err = NoError /\ last.ret = (last.color = WHITE))
        /\ last.pre = board

\* in_check(WHITE) answered True on the board with the black queen on e2.
C13_Witness ==
    /\ last.op = "in_check"
    /\ last.pre = QueenOnE2
    /\ last.color = WHITE
    /\ last.ret = TRUE
    /\ KingSquares(last.pre, WHITE) = {Position(0, 4)}

(* ------------------------------------------- moves of located catalog pieces *)
\* The six kind constants.
Kinds == {KING, QUEEN, ROOK, BISHOP, KNIGHT, PAWN}

\* Squares the moved piece is located on: b1 and c1.
LocateSources == {Position(0, 1), Position(0, 2)}

\* Squares it is moved to: a2, b3 and b1.
LocateTargets == {Position(1, 0), Position(2, 1), Position(0, 1)}

\* board.move_piece(locate_piece(type, color, from), to)
MoveLocated ==
    /\ moves < MaxMoves
    /\ \E type \in Kinds : \E color \in Colors :
       \E from \in LocateSources : \E to \in LocateTargets :
          LET piece == locate_piece(type, color, from)
              out == move_piece(board, piece, to, FALSE, FALSE)
          IN  /\ board' = out.self
              /\ last' = [op |-> "move_piece", on |-> "board", type |-> type,
                          piece |-> piece, position |-> to,
                          ep |-> FALSE, castle |-> FALSE, pre |-> board,
                          err |-> out.err, ret |-> out.ret]
    /\ moves' = moves + 1
    /\ UNCHANGED copied
    /\ UNCHANGED gui

NextLocate == MoveLocated

SpecLocate == Init /\ [][NextLocate]_vars

\* What the last move_piece(locate_piece(type, color, from), to) is to leave:
\* from empty, and on to a piece displaying as that kind and colour on to.
LocatedMoveDisplays ==
    /\ last.err = NoError
    /\ Subject.board[last.piece.position.row][last.piece.position.col] = None
    /\ Subject.board[last.position.row][last.position.col] # None
    /\ Piece_str(Subject.board[last.position.row][last.position.col])
          = Piece_str(Piece(last.type, last.piece.color, last.position))

\* C19 as stated: for every kind K, colour C, source square s and in-range
\* destination d, move_piece(locate_piece(K, C, s), d) leaves s empty and
\* leaves at d a piece that displays as kind K and colour C on square d.
C19_LocatedMove ==
    (last.op = "move_piece" /\ in_range(last.position)) => LocatedMoveDisplays

\* C19 amended: the same for every destination d other than s (for d = s
\* the call empties the square, so no piece is left at d).
C19_LocatedMoveElsewhere ==
    (/\ last.op = "move_piece"
     /\ in_range(last.position)
     /\ last.position # last.piece.position) => LocatedMoveDisplays

\* locate_piece(BISHOP, WHITE, b1) was moved to a2 and a2 displays wBa2.
C19_Witness ==
    /\ last.op = "move_piece"
    /\ last.type = BISHOP
    /\ last.piece.position = Position(0, 1)
    /\ last.position = Position(1, 0)
    /\ Piece_str(get_piece(board, Position(1, 0))) = <<"w", "B", Position(1, 0)>>
    /\ get_piece(board, Position(0, 1)) = None

(* ------------------------------------------------------- Board.get_moves *)
\* Move.__init__ with ep, castle and promote left at their defaults.
Move(piece, position) ==
    [piece |-> piece, position |-> position,
     ep |-> FALSE, castle |-> FALSE, promote |-> None]

\* utils.PriorityQueue.queue: the queue is kept in descending order of
\* priority, an entry going behind the entries of equal priority.
PriorityQueue_queue(queue, priority, item) ==
    LET ahead == Cardinality({n \in 1 .. Len(queue) : queue[n].priority >= priority})
    IN  SubSeq(queue, 1, ahead)
          \o <<[priority |-> priority, item |-> item]>>
          \o SubSeq(queue, ahead + 1, Len(queue))

\* utils.PriorityQueue.pop, until is_empty: the items from the front on.
PriorityQueue_pop_all(queue) == [n \in 1 .. Len(queue) |-> queue[n].item]

\* The heuristics get_moves is called with: none given, and
\* lambda board: board.compute_score(WHITE).
Heuristics == {"None", "compute_score"}

\* heuristic(board_with_move); lambda a: 0 when none was given.
heuristic_of(heuristic, board_with_move) ==
    IF heuristic = "None" THEN 0 ELSE compute_score(board_with_move, WHITE)

\* What the move made on board_with_move leaves: board_with_move after
\* it, self as the writes to the copy left it, and the exception if any.
get_moves_moved(self, out) ==
    [self |-> Propagate(self, out.self), board_with_move |-> out.self,
     err |-> out.err]

\* The move applied to self itself instead of to a copy of it.
get_moves_move_in_place(self, move) ==
    get_moves_moved(move_piece(self, move.piece, move.position, FALSE, FALSE).self,
                    move_piece(self, move.piece, move.position, FALSE, FALSE))

\* board_with_move = self.copy(); board_with_move.move_piece(move.piece,
\* move.position)
get_moves_move(self, move) ==
    get_moves_moved(self,
                    move_piece(copy(self), move.piece, move.position, FALSE, FALSE))

\* Queueing only the moves that do not leave the mover's king in check.
get_moves_queue_legal(queue, heuristic, move, board_with_move) ==
    IF /\ ~in_check_raises(board_with_move, move.piece.color)
       /\ in_check(board_with_move, move.piece.color)
      THEN queue
      ELSE PriorityQueue_queue(queue, heuristic_of(heuristic, board_with_move),
                               <<move, board_with_move>>)

\* Queueing every pair with one and the same priority.
get_moves_queue_unscored(queue, heuristic, move, board_with_move) ==
    PriorityQueue_queue(queue, 0, <<move, board_with_move>>)

\* priority_queue.queue(heuristic(board_with_move), (move, board_with_move))
get_moves_queue(queue, heuristic, move, board_with_move) ==
    PriorityQueue_queue(queue, heuristic_of(heuristic, board_with_move),
                        <<move, board_with_move>>)

\* for p in positions, from the n-th position on; acc holds self, the
\* queue and the exception raised so far.
\* The body of for p in positions: acc after the move was made on a copy
\* and queued.
get_moves_position(acc, heuristic, move, moved) ==
    IF moved.err # NoError
      THEN [acc EXCEPT !.self = moved.self, !.err = moved.err]
      ELSE [self |-> moved.self,
            queue |-> get_moves_queue(acc.queue, heuristic, move,
                                      moved.board_with_move),
            err |-> NoError]

RECURSIVE get_moves_positions(_, _, _, _, _)
get_moves_positions(acc, heuristic, piece, positions, n) ==
    IF n > Len(positions) \/ acc.err # NoError THEN acc
    ELSE get_moves_positions(
             get_moves_position(acc, heuristic, Move(piece, positions[n]),
                 get_moves_move(acc.self, Move(piece, positions[n]))),
             heuristic, piece, positions, n + 1)

\* The body of the two loops for the cell that holds piece.
get_moves_cell(acc, turn, heuristic, piece) ==
    IF piece = None THEN acc
    ELSE IF piece.color # turn THEN acc
    ELSE IF valid_pos_raises(piece, acc.self)
      THEN [acc EXCEPT !.err = valid_pos_error(piece, acc.self)]
    ELSE get_moves_positions(acc, heuristic, piece, valid_pos(piece, acc.self), 1)

\* for j in range(8), from column j on.
RECURSIVE get_moves_row(_, _, _, _, _)
get_moves_row(acc, turn, heuristic, i, j) ==
    IF j = Size \/ acc.err # NoError THEN acc
    ELSE get_moves_row(get_moves_cell(acc, turn, heuristic,
                                      get_piece(acc.self, Position(i, j))),
                       turn, heuristic, i, j + 1)

\* for i in range(8), from row i on.
RECURSIVE get_moves_rows(_, _, _, _)
get_moves_rows(acc, turn, heuristic, i) ==
    IF i = Size \/ acc.err # NoError THEN acc
    ELSE get_moves_rows(get_moves_row(acc, turn, heuristic, i, 0),
                        turn, heuristic, i + 1)

\* while not priority_queue.is_empty(): yield priority_queue.pop(), run to
\* its end: self afterwards, the exception if one was raised, and the
\* sequence of the (move, board) pairs yielded.
get_moves_yield(acc) ==
    [self |-> acc.self, err |-> acc.err,
     ret |-> IF acc.err = NoError THEN PriorityQueue_pop_all(acc.queue)
             ELSE <<>>]

\* Board.get_moves
get_moves(self, turn, heuristic) ==
    get_moves_yield(
        get_moves_rows([self |-> self, queue |-> <<>>, err |-> NoError],
                       turn, heuristic, 0))

(* ------------------------------------------------------ move enumeration *)
\* Squares pieces are moved from: d8, a2 and e2.
EnumSources == {Position(7, 3), Position(1, 0), Position(1, 4)}

\* Squares they are moved to: e2, a8, e4 and h4.
EnumTargets == {Position(1, 4), Position(7, 0), Position(3, 4), Position(3, 7)}

\* board.move_piece(board.get_piece(from), to)
EnumMove ==
    /\ moves < MaxMoves
    /\ \E from \in EnumSources : \E to \in EnumTargets :
          /\ get_piece(board, from) # None
          /\ LET piece == get_piece(board, from)
                 out == move_piece(board, piece, to, FALSE, FALSE)
             IN  /\ board' = out.self
                 /\ last' = Called("move_piece", "board", piece, to, out)
    /\ moves' = moves + 1
    /\ UNCHANGED copied
    /\ UNCHANGED gui

\* list(board.get_moves(turn, heuristic))
GetMoves ==
    /\ \E turn \in Colors : \E heuristic \in Heuristics :
          LET out == get_moves(board, turn, heuristic)
          IN  /\ board' = out.self
              /\ last' = [op |-> "get_moves", on |-> "board", turn |-> turn,
                          heuristic |-> heuristic, piece |-> None,
                          position |-> Position(0, 0), ep |-> FALSE,
                          castle |-> FALSE, pre |-> board,
                          err |-> out.err, ret |-> out.ret]
    /\ UNCHANGED <<copied, moves>>
    /\ UNCHANGED gui

NextMoves == EnumMove \/ GetMoves

SpecMoves == Init /\ [][NextMoves]_vars

\* The pieces of one colour standing on a board.
PiecesOf(self, color) ==
    {self.board[sq[1]][sq[2]] : sq \in SquaresOf(self, color)}

\* The elements of a sequence.
Range(seq) == {seq[n] : n \in 1 .. Len(seq)}

\* Every (piece, destination) with piece of the colour on the board and
\* destination in piece.valid_pos(board).
PseudoLegal(self, color) ==
    UNION {{<<piece, p>> : p \in Range(valid_pos(piece, self))} :
              piece \in PiecesOf(self, color)}

\* C14: get_moves(color) does not filter self-check: it yields exactly one
\* (move, board) pair for every own-coloured piece and every destination
\* in that piece's valid_pos (and raises where a valid_pos raises), pairs
\* whose board has in_check(color) true included.
C14_NoSelfCheckFilter ==
    last.op = "get_moves" =>
        IF \E piece \in PiecesOf(last.pre, last.turn) :
               valid_pos_raises(piece, last.pre)
          THEN last.err # NoError
          ELSE /\ last.err = NoError
               /\ Len(last.ret) = Cardinality(PseudoLegal(last.pre, last.turn))
               /\ {<<pair[1].piece, pair[1].position>> : pair \in Range(last.ret)}
                     = PseudoLegal(last.pre, last.turn)

\* get_moves yielded a pair whose board leaves the mover's king in check.
C14_Witness ==
    /\ last.op = "get_moves"
    /\ last.err = NoError
    /\ \E pair \in Range(last.ret) :
          /\ ~in_check_raises(pair[2], last.turn)
          /\ in_check(pair[2], last.turn)
          /\ KingSquares(pair[2], last.turn) # {}

\* C15: get_moves leaves the board it is called on unchanged (grid, king
\* cache, castling rights, en-passant target), and every yielded board
\* equals a copy of that board on which exactly the yielded move was
\* applied by the normal branch of move_piece.
C15_GetMovesFrame ==
    last.op = "get_moves" =>
        /\ board = last.pre
        /\ \A pair \in Range(last.ret) :
              /\ ~pair[1].ep /\ ~pair[1].castle
              /\ pair[2] = move_piece(copy(last.pre), pair[1].piece,
                                      pair[1].position, FALSE, FALSE).self

\* get_moves yielded boards that differ from the board it was called on.
C15_Witness ==
    /\ last.op = "get_moves"
    /\ last.err = NoError
    /\ moves > 0
    /\ last.ret # <<>>
    /\ \A pair \in Range(last.ret) : pair[2] # board

(* ------------------------------------------- is_valid and valid_pos asked *)
\* Every square of the grid.
Grid == {Position(i, j) : i \in Rows, j \in Rows}

\* The record of piece.is_valid(position, board).
IsValidCalled(piece, position) ==
    [op |-> "is_valid", on |-> "board", piece |-> piece, position |-> position,
     ep |-> FALSE, castle |-> FALSE, pre |-> board, err |-> NoError,
     ret |-> is_valid(piece, position, board)]

\* The record of piece.valid_pos(board).
ValidPosCalled(piece) ==
    [op |-> "valid_pos", on |-> "board", piece |-> piece,
     position |-> piece.position, ep |-> FALSE, castle |-> FALSE,
     pre |-> board,
     err |-> IF valid_pos_raises(piece, board)
               THEN valid_pos_error(piece, board) ELSE NoError,
     ret |-> IF valid_pos_raises(piece, board)
               THEN <<>> ELSE valid_pos(piece, board)]

(* ------------------------------------------------------- sliding pieces *)
\* Squares whose occupants are moved: a1 (rook), c1 (a Knight object, put
\* down as a Bishop object), d1 (queen) and b7 (black pawn).
SlideSources == {Position(0, 0), Position(0, 2), Position(0, 3), Position(6, 1)}

\* Squares they are moved to, and whose occupants are asked: d4, b4 and f6.
SlideTargets == {Position(3, 3), Position(3, 1), Position(5, 5)}

\* board.move_piece(board.get_piece(from), to)
SlideMove ==
    /\ moves < MaxMoves
    /\ \E from \in SlideSources : \E to \in SlideTargets :
          /\ get_piece(board, from) # None
          /\ LET piece == get_piece(board, from)
                 out == move_piece(board, piece, to, FALSE, FALSE)
             IN  /\ board' = out.self
                 /\ last' = Called("move_piece", "board", piece, to, out)
    /\ moves' = moves + 1
    /\ UNCHANGED copied
    /\ UNCHANGED gui

\* board.get_piece(from).is_valid(position, board)
SlideIsValid ==
    /\ \E from \in SlideTargets : \E position \in Grid :
          /\ get_piece(board, from) # None
          /\ last' = IsValidCalled(get_piece(board, from), position)
    /\ UNCHANGED <<board, copied, moves>>
    /\ UNCHANGED gui

NextSlide == SlideMove \/ SlideIsValid

SpecSlide == Init /\ [][NextSlide]_vars

\* -1, 0 or 1 as x is negative, zero or positive.
Sign(x) == IF x < 0 THEN -1 ELSE IF x > 0 THEN 1 ELSE 0

\* b lies on a rank or file through a, resp. on a diagonal through a.
SameRankOrFile(a, b) == a.row = b.row \/ a.col = b.col
SameDiagonal(a, b) == abs(a.row - b.row) = abs(a.col - b.col)

\* b lies on a movement line of the kind through a.
OnLine(index, a, b) ==
    \/ index \in {ROOK, QUEEN} /\ SameRankOrFile(a, b)
    \/ index \in {BISHOP, QUEEN} /\ SameDiagonal(a, b)

\* The squares strictly between a and b, which lie on one line.
Between(a, b) ==
    {s \in Grid :
        /\ s # a
        /\ s # b
        /\ SameRankOrFile(a, s) \/ SameDiagonal(a, s)
        /\ Sign(s.row - a.row) = Sign(b.row - a.row)
        /\ Sign(s.col - a.col) = Sign(b.col - a.col)
        /\ max(abs(s.row - a.row), abs(s.col - a.col))
             < max(abs(b.row - a.row), abs(b.col - a.col))}

\* The square of a board is empty.
Empty(self, s) == self.board[s.row][s.col] = None

\* C21: for a rook, bishop or queen standing on the board, is_valid(dest)
\* is true if and only if dest differs from the piece's square, lies on
\* one of the kind's movement lines, every square strictly between the
\* piece and dest is empty, and dest is empty or holds a piece of the
\* other colour; a square beyond an occupied one is never accepted.
C21_SlidingIsValid ==
    (last.op = "is_valid" /\ last.piece.index \in {ROOK, BISHOP, QUEEN})
    => LET piece == last.piece
           dest == last.position
       IN  /\ last.ret
                <=> /\ dest # piece.position
                    /\ OnLine(piece.index, piece.position, dest)
                    /\ \A s \in Between(piece.position, dest) : Empty(board, s)
                    /\ \/ Empty(board, dest)
                       \/ board.board[dest.row][dest.col].color # piece.color
           /\ (/\ OnLine(piece.index, piece.position, dest)
               /\ \E s \in Between(piece.position, dest) : ~Empty(board, s))
              => ~last.ret

\* The rook moved to d4 and the black pawn moved to b4: the rook is asked
\* for a4, the square beyond the pawn, and refuses it.
C21_Witness ==
    /\ last.op = "is_valid"
    /\ last.piece = Piece(ROOK, WHITE, Position(3, 3))
    /\ board.board[3][3] = last.piece
    /\ board.board[3][1] = Piece(PAWN, BLACK, Position(3, 1))
    /\ last.position = Position(3, 0)
    /\ ~last.ret

(* ---------------------------------------------------------------- pawns *)
\* Squares whose occupants are moved: e2, d2 (white pawns), d7 (black pawn).
PawnSources == {Position(1, 4), Position(1, 3), Position(6, 3)}

\* Squares they are moved to: e4, d4 and e3.
PawnTargets == {Position(3, 4), Position(3, 3), Position(2, 4)}

\* Squares a pawn is asked about: columns c to f.
PawnAsked == {Position(i, j) : i \in Rows, j \in 2 .. 5}

\* board.move_piece(board.get_piece(from), to)
PawnMove ==
    /\ moves < MaxMoves
    /\ \E from \in PawnSources : \E to \in PawnTargets :
          /\ get_piece(board, from) # None
          /\ LET piece == get_piece(board, from)
                 out == move_piece(board, piece, to, FALSE, FALSE)
             IN  /\ board' = out.self
                 /\ last' = Called("move_piece", "board", piece, to, out)
    /\ moves' = moves + 1
    /\ UNCHANGED copied
    /\ UNCHANGED gui

\* board.get_piece(from).is_valid(position, board)
PawnIsValid ==
    /\ \E from \in PawnSources \cup PawnTargets : \E position \in PawnAsked :
          /\ get_piece(board, from) # None
          /\ last' = IsValidCalled(get_piece(board, from), position)
    /\ UNCHANGED <<board, copied, moves>>
    /\ UNCHANGED gui

\* board.get_piece(from).valid_pos(board)
PawnValidPos ==
    /\ \E from \in PawnSources \cup PawnTargets :
          /\ get_piece(board, from) # None
          /\ last' = ValidPosCalled(get_piece(board, from))
    /\ UNCHANGED <<board, copied, moves>>
    /\ UNCHANGED gui

NextPawn == PawnMove \/ PawnIsValid \/ PawnValidPos

SpecPawn == Init /\ [][NextPawn]_vars

\* The two squares diagonally ahead of a pawn.
DiagonalAhead(piece) ==
    {Position_add(piece.position, <<Forward(piece.color), -1>>),
     Position_add(piece.position, <<Forward(piece.color), 1>>)}

\* The square of a board holds a piece of the other colour than color.
Enemy(self, color, s) ==
    ~Empty(self, s) /\ self.board[s.row][s.col].color # color

\* The square behind s, seen from a mover of the colour, holds a pawn of
\* the other colour that is the board's en-passant target.
EnemyPassed(self, color, s) ==
    LET behind == Behind(color, s)
    IN  /\ in_range(behind)
        /\ Enemy(self, color, behind)
        /\ self.board[behind.row][behind.col].index = PAWN
        /\ self.board[behind.row][behind.col] = self.en_passant

\* C22: a pawn's valid_pos contains a diagonal-forward square only if that
\* square holds an enemy piece, or the square directly behind it holds an
\* enemy-coloured pawn that is the board's current en-passant target; an
\* own-coloured en-passant target never earns a pawn a diagonal move.
C22_PawnDiagonal ==
    (last.op = "valid_pos" /\ last.piece.index = PAWN /\ last.err = NoError)
    => \A p \in DiagonalAhead(last.piece) \cap Range(last.ret) :
          Enemy(board, last.piece.color, p)
            \/ EnemyPassed(board, last.piece.color, p)

\* C23: a pawn's is_valid accepts the square one row forward iff that
\* square is empty, and the square two rows forward iff the pawn stands on
\* its starting row and both the intermediate and the destination square
\* are empty; no other square of the pawn's own column is accepted.
C23_PawnForward ==
    (/\ last.op = "is_valid"
     /\ last.piece.index = PAWN
     /\ last.position.col = last.piece.position.col)
    => LET piece == last.piece
           ahead == last.position.row - piece.position.row
           one == Position_add(piece.position, <<Forward(piece.color), 0>>)
       IN  last.ret
             <=> \/ ahead = Forward(piece.color) /\ Empty(board, last.position)
                 \/ /\ ahead = 2 * Forward(piece.color)
                    /\ piece.position.row = StartRow(piece.color)
                    /\ Empty(board, one)
                    /\ Empty(board, last.position)

\* A white pawn moved to e3 is asked for e5, two rows ahead of a row that
\* is not its starting row, with e4 and e5 empty: refused.
C23_Witness ==
    /\ last.op = "is_valid"
    /\ last.piece = Piece(PAWN, WHITE, Position(2, 4))
    /\ board.board[2][4] = last.piece
    /\ last.position = Position(4, 4)
    /\ Empty(board, Position(3, 4))
    /\ ~last.ret

\* The pawns of the other colour standing next to position on its row.
PawnsBeside(self, color, position) ==
    {self.board[s.row][s.col] :
        s \in {t \in Grid : /\ t.row = position.row
                           /\ abs(t.col - position.col) = 1
                           /\ Enemy(self, color, t)
                           /\ self.board[t.row][t.col].index = PAWN}}

\* C24: after a pawn standing on its starting row is moved two rows
\* forward, the board's en-passant target is the very record that occupies
\* the destination cell, and an enemy pawn standing next to it on the same
\* row has the passed-over square accepted by is_valid and listed by
\* valid_pos.
C24_EnPassantOffered ==
    /\ (NormalMove /\ DoubleStep(last.piece, last.position))
       => /\ board.en_passant = board.board[last.position.row][last.position.col]
          /\ board.en_passant # None
          /\ \A pawn \in PawnsBeside(board, last.piece.color, last.position) :
                LET passed == Behind(last.piece.color, last.position)
                IN  /\ is_valid(pawn, passed, board)
                    /\ ~valid_pos_raises(pawn, board)
                    /\ passed \in Range(valid_pos(pawn, board))
    /\ (/\ last.op \in {"is_valid", "valid_pos"}
        /\ last.piece.index = PAWN
        /\ board.en_passant # None
        /\ board.en_passant = board.board[board.en_passant.position.row]
                                         [board.en_passant.position.col]
        /\ last.piece \in PawnsBeside(board, board.en_passant.color,
                                      board.en_passant.position))
       => LET passed == Behind(board.en_passant.color, board.en_passant.position)
          IN  /\ last.op = "is_valid" /\ last.position = passed => last.ret
              /\ last.op = "valid_pos"
                   => last.err = NoError /\ passed \in Range(last.ret)

\* The black pawn moved to d4, then the white pawn from e2 to e4: the
\* black pawn is asked for e3 and accepts it.
C24_Witness ==
    /\ last.op = "is_valid"
    /\ last.piece = Piece(PAWN, BLACK, Position(3, 3))
    /\ board.board[3][3] = last.piece
    /\ board.en_passant = Piece(PAWN, WHITE, Position(3, 4))
    /\ board.board[3][4] = board.en_passant
    /\ last.position = Position(2, 4)
    /\ last.ret

\* C29: enumeration and predicate agree: for a piece standing on a board
\* reached from the initial position by move_piece and an in-range square
\* s, s is in piece.valid_pos(board) if and only if piece.is_valid(s, board)
\* is true, en-passant targets of either colour included.
C29_EnumerationIsPredicate ==
    /\ last.op = "is_valid"
         => /\ ~valid_pos_raises(last.piece, board)
            /\ last.ret <=> last.position \in Range(valid_pos(last.piece, board))
    /\ last.op = "valid_pos"
         => /\ last.err = NoError
            /\ \A s \in Grid :
                  s \in Range(last.ret) <=> is_valid(last.piece, s, board)

(* ------------------------------------------------ enumerated moves played *)
\* The enumerated moves that are played, as (from, to): the white a-pawn's
\* way a2-a4-a5-a6xb7xa8, the black d-pawn's way d7-d5-d4xe3 and e2-e4.
ReachMoves ==
    {<<Position(1, 0), Position(3, 0)>>, <<Position(3, 0), Position(4, 0)>>,
     <<Position(4, 0), Position(5, 0)>>, <<Position(5, 0), Position(6, 1)>>,
     <<Position(6, 1), Position(7, 0)>>,
     <<Position(6, 3), Position(4, 3)>>, <<Position(4, 3), Position(3, 3)>>,
     <<Position(3, 3), Position(2, 4)>>,
     <<Position(1, 4), Position(3, 4)>>}

\* The squares those moves touch.
ReachSquares == {m[1] : m \in ReachMoves} \cup {m[2] : m \in ReachMoves}

\* The (move, board) pairs list(self.get_moves(turn)) holds.
Yielded(self, turn) == Range(get_moves(self, turn, "None").ret)

\* for move, new_board in board.get_moves(turn): one of the yielded boards
\* becomes the board.
PlayYielded ==
    /\ moves < MaxPlies
    /\ \E turn \in Colors : \E pair \in Yielded(board, turn) :
          /\ <<pair[1].piece.position, pair[1].position>> \in ReachMoves
          /\ board' = pair[2]
          /\ last' = [op |-> "play", on |-> "board", turn |-> turn,
                      piece |-> pair[1].piece, position |-> pair[1].position,
                      ep |-> pair[1].ep, castle |-> pair[1].castle,
                      pre |-> board, err |-> NoError, ret |-> None]
    /\ moves' = moves + 1
    /\ UNCHANGED copied
    /\ UNCHANGED gui

\* board.get_piece(from).valid_pos(board)
ReachValidPos ==
    /\ \E from \in ReachSquares :
          /\ get_piece(board, from) # None
          /\ last' = ValidPosCalled(get_piece(board, from))
    /\ UNCHANGED <<board, copied, moves>>
    /\ UNCHANGED gui

NextReach == PlayYielded \/ GetMoves \/ ReachValidPos

SpecReach == Init /\ [][NextReach]_vars

\* C25: an en-passant capture removes the passed pawn also when it is
\* produced by move enumeration: on every board yielded by get_moves for a
\* pawn move onto an en-passant destination, the enemy pawn that had just
\* advanced two squares is no longer on the board.
C25_EnumeratedEnPassant ==
    (last.op = "get_moves" /\ last.err = NoError)
    => \A pair \in Range(last.ret) :
          (/\ pair[1].piece.index = PAWN
           /\ pair[1].position \in DiagonalAhead(pair[1].piece)
           /\ Empty(last.pre, pair[1].position)
           /\ EnemyPassed(last.pre, pair[1].piece.color, pair[1].position))
          => /\ Empty(pair[2], Behind(pair[1].piece.color, pair[1].position))
             /\ \A s \in Grid : pair[2].board[s.row][s.col] # last.pre.en_passant

\* C30: on a board reached from the initial position by enumerated moves,
\* valid_pos of a piece and get_moves of either colour complete without
\* raising and return only squares of the grid.
C30_EnumerationCompletes ==
    /\ last.op = "valid_pos"
         => last.err = NoError /\ \A p \in Range(last.ret) : in_range(p)
    /\ last.op = "get_moves"
         => /\ last.err = NoError
            /\ \A pair \in Range(last.ret) : in_range(pair[1].position)

(* ------------------------------------------------------------ promotion *)
\* Board.move_piece(piece, position, ep, castle, promote): the body never
\* reads promote.
move_piece_promote(self, piece, position, ep, castle, promote) ==
    move_piece(self, piece, position, ep, castle)

\* Squares whose occupants are moved: a2, b2 (white pawns), h7 (black pawn).
PromoteSources == {Position(1, 0), Position(1, 1), Position(6, 7)}

\* Squares they are moved to: a8, b8, h1 and a7.
PromoteTargets == {Position(7, 0), Position(7, 1), Position(0, 7), Position(6, 0)}

\* The kinds a pawn is promoted to.
PromoteKinds == {QUEEN, ROOK, BISHOP, KNIGHT}

\* board.move_piece(board.get_piece(from), to, promote=kind)
PromoteMove ==
    /\ moves < MaxMoves
    /\ \E from \in PromoteSources \cup PromoteTargets :
       \E to \in PromoteTargets : \E kind \in PromoteKinds :
          /\ get_piece(board, from) # None
          /\ LET piece == get_piece(board, from)
                 out == move_piece_promote(board, piece, to, FALSE, FALSE, kind)
             IN  /\ board' = out.self
                 /\ last' = [op |-> "move_piece_promote", on |-> "board",
                             piece |-> piece, position |-> to, ep |-> FALSE,
                             castle |-> FALSE, promote |-> kind, pre |-> board,
                             err |-> out.err, ret |-> out.ret]
    /\ moves' = moves + 1
    /\ UNCHANGED copied
    /\ UNCHANGED gui

NextPromote == PromoteMove

SpecPromote == Init /\ [][NextPromote]_vars

\* The row a pawn of the colour promotes on.
LastRank(color) == IF color = WHITE THEN Size - 1 ELSE 0

\* C26: promotion is applied by move_piece: when a pawn is moved onto the
\* last rank with promote set to a piece kind, the destination cell
\* afterwards holds a piece of the requested kind and of the pawn's colour.
C26_Promotion ==
    (/\ last.op = "move_piece_promote"
     /\ last.err = NoError
     /\ last.piece.index = PAWN
     /\ last.position.row = LastRank(last.piece.color))
    => LET cell == board.board[last.position.row][last.position.col]
       IN  /\ cell # None
           /\ cell.index = last.promote
           /\ cell.color = last.piece.color

(* ---------------------------------------------------------- square texts *)
\* The strings "abcdefgh" and "12345678", character by character.
Letters == <<"a", "b", "c", "d", "e", "f", "g", "h">>
Digits == <<"1", "2", "3", "4", "5", "6", "7", "8">>

\* str.index: the position, counted from 0, of the first occurrence of a
\* character; ValueError when the string does not hold it.
str_index_raises(string, ch) == \A n \in 1 .. Len(string) : string[n] # ch
str_index(string, ch) ==
    (CHOOSE n \in 1 .. Len(string) :
        string[n] = ch /\ \A m \in 1 .. (n - 1) : string[m] # ch) - 1

\* Indexing a string: a negative index counts from the end, an index
\* outside -len .. len-1 raises IndexError.
str_item(string, i) == string[(IF i < 0 THEN i + Len(string) ELSE i) + 1]

\* locate with the two indexes in each other's place.
locate_col_row(pos_str) ==
    Position(str_index(Letters, pos_str[1]), str_index(Digits, pos_str[2]))

\* locate
locate(pos_str) ==
    Position(str_index(Digits, pos_str[2]), str_index(Letters, pos_str[1]))

\* locate raises ValueError for a character that is no row digit, resp. no
\* column letter.
locate_raises(pos_str) ==
    str_index_raises(Digits, pos_str[2]) \/ str_index_raises(Letters, pos_str[1])

\* Position.__str__
Position_str(self) == <<str_item(Letters, self.col), str_item(Digits, self.row)>>

\* Texts handed to locate: a letter a..i followed by a digit 1..9.
Texts ==
    {<<l, d>> : l \in Range(Letters) \cup {"i"}, d \in Range(Digits) \cup {"9"}}

\* Positions printed: rows and columns from -1 to Size.
Printed == {Position(i, j) : i \in -1 .. Size, j \in -1 .. Size}

\* locate(text)
Locate ==
    /\ \E text \in Texts :
          last' = [op |-> "locate", on |-> "board", text |-> text,
                   piece |-> None, position |-> Position(0, 0),
                   ep |-> FALSE, castle |-> FALSE, pre |-> board,
                   err |-> IF locate_raises(text) THEN ValueError ELSE NoError,
                   ret |-> IF locate_raises(text) THEN None ELSE locate(text)]
    /\ UNCHANGED <<board, copied, moves>>
    /\ UNCHANGED gui

\* str(position)
Str ==
    /\ \E position \in Printed :
          last' = [op |-> "str", on |-> "board", piece |-> None,
                   position |-> position, ep |-> FALSE, castle |-> FALSE,
                   pre |-> board,
                   err |-> IF Position_str_raises(position)
                             THEN IndexError ELSE NoError,
                   ret |-> IF Position_str_raises(position)
                             THEN None ELSE Position_str(position)]
    /\ UNCHANGED <<board, copied, moves>>
    /\ UNCHANGED gui

NextText == Locate \/ Str

SpecText == Init /\ [][NextText]_vars

\* C27: square text round trip: for each of the 64 squares,
\* locate(str(Position(r, c))) = Position(r, c) and str(locate(text)) =
\* text, the column letter a..h encoding col 0..7 and the row digit 1..8
\* encoding row 0..7 (a1 is row 0, col 0; e4 is row 3, col 4).
C27_TextRoundTrip ==
    /\ (last.op = "str" /\ in_range(last.position))
       => /\ last.err = NoError
          /\ ~locate_raises(last.ret)
          /\ locate(last.ret) = last.position
          /\ last.ret[1] = Letters[last.position.col + 1]
          /\ last.ret[2] = Digits[last.position.row + 1]
          /\ last.position = Position(0, 0) => last.ret = <<"a", "1">>
          /\ last.position = Position(3, 4) => last.ret = <<"e", "4">>
    /\ (/\ last.op = "locate"
        /\ last.text[1] \in Range(Letters)
        /\ last.text[2] \in Range(Digits))
       => /\ last.err = NoError
          /\ in_range(last.ret)
          /\ Position_str(last.ret) = last.text
          /\ last.text = <<"a", "1">> => last.ret = Position(0, 0)
          /\ last.text = <<"e", "4">> => last.ret = Position(3, 4)
          /\ last.text = <<"h", "8">> => last.ret = Position(7, 7)

\* locate("e4") returned the position of row 3, column 4.
C27_Witness ==
    /\ last.op = "locate"
    /\ last.text = <<"e", "4">>
    /\ last.ret = Position(3, 4)
    /\ Position_str(last.ret) = <<"e", "4">>

(* ------------------------------------------------- order of enumeration *)
\* The place of a position in a list of positions.
PlaceIn(positions, p) == CHOOSE n \in 1 .. Len(positions) : positions[n] = p

\* Move a is generated before move b on the board: the cells are scanned
\* row by row, the destinations of one piece in the order of its valid_pos.
GeneratedBefore(self, a, b) ==
    \/ a.piece.position.row < b.piece.position.row
    \/ /\ a.piece.position.row = b.piece.position.row
       /\ a.piece.position.col < b.piece.position.col
    \/ /\ a.piece = b.piece
       /\ PlaceIn(valid_pos(a.piece, self), a.position)
            < PlaceIn(valid_pos(b.piece, self), b.position)

\* C28: get_moves(color, heuristic) yields its (move, board) pairs in
\* descending order of heuristic(board), and pairs of equal score in the
\* order they were generated (cells scanned row by row, then valid_pos
\* order).
C28_YieldOrder ==
    (last.op = "get_moves" /\ last.err = NoError)
    => \A i \in 1 .. Len(last.ret) : \A j \in (i + 1) .. Len(last.ret) :
          \/ heuristic_of(last.heuristic, last.ret[i][2])
               > heuristic_of(last.heuristic, last.ret[j][2])
          \/ /\ heuristic_of(last.heuristic, last.ret[i][2])
                  = heuristic_of(last.heuristic, last.ret[j][2])
             /\ GeneratedBefore(last.pre, last.ret[i][1], last.ret[j][1])

\* get_moves with the material heuristic yielded a pair ahead of a pair
\* generated earlier and of lower score, and two pairs of equal score.
C28_Witness ==
    /\ last.op = "get_moves"
    /\ last.err = NoError
    /\ last.heuristic = "compute_score"
    /\ \E i \in 1 .. Len(last.ret) : \E j \in (i + 1) .. Len(last.ret) :
          /\ heuristic_of(last.heuristic, last.ret[i][2])
               > heuristic_of(last.heuristic, last.ret[j][2])
          /\ GeneratedBefore(last.pre, last.ret[j][1], last.ret[i][1])
    /\ \E i \in 1 .. Len(last.ret) : \E j \in (i + 1) .. Len(last.ret) :
          heuristic_of(last.heuristic, last.ret[i][2])
            = heuristic_of(last.heuristic, last.ret[j][2])

(* ------------------------------------------------------ main.py, the loop *)
\* Window and board geometry (main.py lines 17-20).
WIDTH == 1000
HEIGHT == 1000
CELL_SIZE == 110
BOARD_BORDER == 60

\* Piece.__repr__, character by character: colour letter, class char, square.
Piece_repr(piece) ==
    <<IF piece.color = BLACK THEN "b" ELSE "w", char(piece)>>
      \o Position_str(piece.position)

\* Move.__repr__: repr(piece) + " to " + repr(position).
Move_repr(move) ==
    Piece_repr(move.piece) \o <<" ", "t", "o", " ">> \o Position_str(move.position)

\* str.startswith and str.endswith.
startswith(string, prefix) ==
    Len(prefix) <= Len(string) /\ SubSeq(string, 1, Len(prefix)) = prefix
endswith(string, suffix) ==
    /\ Len(suffix) <= Len(string)
    /\ SubSeq(string, Len(string) - Len(suffix) + 1, Len(string)) = suffix

\* pieces_decoder_dict and pieces_encoder_dict.
pieces_decoder_dict(ch) ==
    CASE ch = "P" -> PAWN
      [] ch = "N" -> KNIGHT
      [] ch = "B" -> BISHOP
      [] ch = "Q" -> QUEEN
      [] ch = "K" -> KING
      [] ch = "R" -> ROOK
pieces_encoder_dict(kind) ==
    CASE kind = PAWN   -> "P"
      [] kind = KNIGHT -> "N"
      [] kind = BISHOP -> "B"
      [] kind = QUEEN  -> "Q"
      [] kind = KING   -> "K"
      [] kind = ROOK   -> "R"

\* chr(97 + k) for k from -1 to 7, and str(n) for n from 0 to 8; chr(96),
\* the grave accent, is written "grave".
chr_97(k) == IF k = -1 THEN "grave" ELSE Letters[k + 1]
str_int(n) == IF n = 0 THEN "0" ELSE Digits[n]

\* The mouse is off the board: the tests of lines 120-123 and 145-152.
off_board(mouse) ==
    \/ BOARD_BORDER > mouse[1] \/ mouse[1] > WIDTH - BOARD_BORDER
    \/ BOARD_BORDER > mouse[2] \/ mouse[2] > HEIGHT - BOARD_BORDER

\* cell_name of lines 124-126 and 154-156.
cell_name_of(mouse) ==
    LET board_pos_x == 7 - ((mouse[1] - BOARD_BORDER) \div CELL_SIZE)
        board_pos_y == 8 - ((mouse[2] - BOARD_BORDER) \div CELL_SIZE)
    IN  <<chr_97(board_pos_x), str_int(board_pos_y)>>

\* The strings of line 136-137: str(move[0]) of every pair of
\* list(board.get_moves(0)) that starts with the picked piece and square.
available_moves_of(pairs, focus_piece_name, cell_name) ==
    LET prefix == <<"w", pieces_encoder_dict(focus_piece_name)>> \o cell_name
        Mine(text) == startswith(text, prefix)
    IN  SelectSeq([n \in 1 .. Len(pairs) |-> Move_repr(pairs[n][1])], Mine)

\* any([move.endswith(cell_name) for move in available_moves])
any_endswith(available_moves, cell_name) ==
    \E n \in 1 .. Len(available_moves) : endswith(available_moves[n], cell_name)

\* The middle of the cell the square is drawn in.
MouseAt(position) ==
    <<BOARD_BORDER + CELL_SIZE * (7 - position.col) + CELL_SIZE \div 2,
      BOARD_BORDER + CELL_SIZE * (7 - position.row) + CELL_SIZE \div 2>>

\* Squares the mouse is pressed and released on: e2, d2, e4, d4, e7.
GuiCells ==
    {Position(1, 4), Position(1, 3), Position(3, 4), Position(3, 3),
     Position(6, 4)}

\* Mouse positions: those cells, a point left of the board, and a point on
\* the right edge of the board area.
Mice ==
    {MouseAt(p) : p \in GuiCells}
      \cup {<<10, 500>>, <<WIDTH - BOARD_BORDER, 500>>}

\* The moves the search answers with, as (from, to): d7-d5, e7-e5.
AiMoves ==
    {<<Position(6, 3), Position(4, 3)>>, <<Position(6, 4), Position(4, 4)>>}

\* What one pass through a handler leaves: the module-level variables, the
\* board, previous_board, the exception that ended the program if any, and
\* for the history the piece picked up.
Handled(g, b, previous, err, picked) ==
    [gui |-> g, board |-> b, previous |-> previous, err |-> err, picked |-> picked]

\* An uncaught exception ends the program.
Crashed(g) == [g EXCEPT !.running = FALSE]

\* MOUSEBUTTONDOWN from line 132 on: the piece is picked up and the moves
\* enumerated for it are kept as strings; out is board.get_moves(0).
mouse_down_pick(g, previous, cell_name, piece, out) ==
    LET picking == [g EXCEPT !.start_moving = TRUE,
                             !.start_pos = cell_name,
                             !.focus_piece_name =
                                 pieces_decoder_dict(Piece_repr(piece)[2])]
    IN  IF out.err # NoError
          THEN Handled(Crashed(picking), out.self, previous, out.err, <<>>)
          ELSE Handled([picking EXCEPT !.available_moves =
                            available_moves_of(out.ret, picking.focus_piece_name,
                                               cell_name)],
                       out.self, previous, NoError, <<piece>>)

\* The MOUSEBUTTONDOWN handler (lines 116-137).
mouse_down(g, b, previous, mouse) ==
    IF g.turn # 0 \/ off_board(mouse)
      THEN Handled(g, b, previous, NoError, <<>>)
    ELSE IF locate_raises(cell_name_of(mouse))
      THEN Handled(Crashed(g), b, previous, ValueError, <<>>)
    ELSE IF \/ get_piece(b, locate(cell_name_of(mouse))) = None
            \/ startswith(Piece_repr(get_piece(b, locate(cell_name_of(mouse)))), <<"b">>)
      THEN Handled(g, b, previous, NoError, <<>>)
    ELSE mouse_down_pick(g, previous, cell_name_of(mouse),
                         get_piece(b, locate(cell_name_of(mouse))),
                         get_moves(b, WHITE, "None"))

\* MOUSEBUTTONUP from line 166 on: the move is committed; out is the
\* move_piece call of line 168, made after previous_board = board.copy().
mouse_up_commit(g, b, out) ==
    IF out.err # NoError
      THEN Handled(Crashed([g EXCEPT !.shared = FALSE]), out.self,
                   <<copy(b)>>, out.err, <<>>)
      ELSE Handled([g EXCEPT !.shared = FALSE,
                             !.available_moves = None,
                             !.start_pos = None,
                             !.start_moving = FALSE,
                             !.focus_piece_name = None,
                             !.turn = 1],
                   out.self, <<copy(b)>>, NoError, <<>>)

\* The MOUSEBUTTONUP handler (lines 139-176).
mouse_up(g, b, previous, mouse) ==
    IF g.turn # 0 \/ ~g.start_moving
      THEN Handled(g, b, previous, NoError, <<>>)
    ELSE IF off_board(mouse)
      THEN Handled([g EXCEPT !.start_moving = FALSE], b, previous, NoError, <<>>)
    ELSE IF g.start_pos = cell_name_of(mouse)
      THEN Handled([g EXCEPT !.start_moving = FALSE], b, previous, NoError, <<>>)
    ELSE IF ~any_endswith(g.available_moves, cell_name_of(mouse))
      THEN Handled([g EXCEPT !.start_moving = FALSE], b, previous, NoError, <<>>)
    ELSE mouse_up_commit(g, b,
           move_piece(b, locate_piece(g.focus_piece_name, WHITE, locate(g.start_pos)),
                      locate(cell_name_of(mouse)), FALSE, FALSE))

\* The keys pressed: R, Q, ESC and a key the loop does not know.
Keys == {"r", "q", "escape", "space"}

\* The KEYDOWN handler (lines 178-182): after board = previous_board the
\* two names are one object.
key_down(g, b, previous, key) ==
    IF key \in {"escape", "q"}
      THEN Handled(Crashed(g), b, previous, NoError, <<>>)
    ELSE IF key = "r"
      THEN Handled([g EXCEPT !.shared = TRUE], previous[1], previous, NoError, <<>>)
    ELSE Handled(g, b, previous, NoError, <<>>)

\* Lines 85-90: the move the search answered with is taken apart as a
\* string and made with a catalog piece; a move made on the object both
\* names refer to shows under both.
ai_move(g, b, previous, text) ==
    LET piece == pieces_decoder_dict(text[2])
        start_pos == SubSeq(text, 3, 4)
        end_pos == SubSeq(text, 9, 10)
        out == move_piece(b, locate_piece(piece, BLACK, locate(start_pos)),
                          locate(end_pos), FALSE, FALSE)
        after == [g EXCEPT !.start_pos = start_pos]
    IN  IF out.err # NoError
          THEN Handled(Crashed(after), out.self,
                       IF g.shared THEN <<out.self>> ELSE previous, out.err, <<>>)
          ELSE Handled([after EXCEPT !.turn = 0], out.self,
                       IF g.shared THEN <<out.self>> ELSE previous, NoError, <<>>)

\* The history kept of one pass: what was handled, the state before it, the
\* side that last moved a piece on the object named board (before and after
\* the pass) and on the object named previous_board, and the piece last
\* picked up with the board it was picked up on.
Passed(op, input, done, mover, kept) ==
    [op |-> op, input |-> input, err |-> done.err, pre |-> board,
     pre_gui |-> gui, pre_mover |-> last.mover, mover |-> mover, kept |-> kept,
     picked |-> IF done.picked # <<>> THEN done.picked ELSE last.picked,
     picked_on |-> IF done.picked # <<>> THEN <<board>> ELSE last.picked_on]

\* The state before the loop of main.py is entered (lines 59-79).
InitGui ==
    /\ board = NewBoard
    /\ copied = <<copy(NewBoard)>>
    /\ moves = 0
    /\ gui = GuiStart
    /\ last = [op |-> "main", input |-> <<>>, err |-> NoError, pre |-> NewBoard,
               pre_gui |-> GuiStart, pre_mover |-> <<>>, mover |-> <<>>,
               kept |-> <<>>,
               picked |-> <<>>, picked_on |-> <<>>]

\* A pass leaves the program as done says.
Leaves(done) ==
    /\ board' = done.board
    /\ copied' = done.previous
    /\ gui' = done.gui

\* event.type == pygame.MOUSEBUTTONDOWN
MouseDown ==
    /\ gui.running
    /\ \E mouse \in Mice : \E done \in {mouse_down(gui, board, copied, mouse)} :
          /\ Leaves(done)
          /\ last' = Passed("MOUSEBUTTONDOWN", mouse, done, last.mover, last.kept)
    /\ UNCHANGED moves

\* event.type == pygame.MOUSEBUTTONUP
MouseUp ==
    /\ gui.running
    /\ \E mouse \in Mice : \E done \in {mouse_up(gui, board, copied, mouse)} :
          /\ done.board # board => moves < MaxTurns
          /\ Leaves(done)
          /\ moves' = IF done.board # board THEN moves + 1 ELSE moves
          /\ last' = Passed("MOUSEBUTTONUP", mouse, done,
                            IF done.board # board THEN <<WHITE>> ELSE last.mover,
                            IF done.board # board THEN last.mover ELSE last.kept)

\* event.type == pygame.KEYDOWN
KeyDown ==
    /\ gui.running
    /\ \E key \in Keys : \E done \in {key_down(gui, board, copied, key)} :
          /\ Leaves(done)
          /\ last' = Passed("KEYDOWN", key, done,
                            IF key = "r" THEN last.kept ELSE last.mover, last.kept)
    /\ UNCHANGED moves

\* event.type == pygame.QUIT
Quit ==
    /\ gui.running
    /\ gui' = Crashed(gui)
    /\ last' = Passed("QUIT", <<>>, Handled(gui, board, copied, NoError, <<>>),
                      last.mover, last.kept)
    /\ UNCHANGED <<board, copied, moves>>

\* ai.minimax(board, depth, 1): the search consumes the moves enumerated
\* for Black and answers with one of them; which one is left open.
minimax(b) ==
    {pair \in Yielded(b, BLACK) :
        <<pair[1].piece.position, pair[1].position>> \in AiMoves}

\* The branch of lines 83-90, once the 300 ms have passed.
AiMove ==
    /\ gui.running
    /\ gui.turn = 1
    /\ moves < MaxTurns
    /\ \E pair \in minimax(board) :
          /\ \E done \in {ai_move(gui, board, copied, Move_repr(pair[1]))} :
                /\ Leaves(done)
                /\ last' = Passed("ai", Move_repr(pair[1]), done, <<BLACK>>,
                                  IF gui.shared THEN <<BLACK>> ELSE last.kept)
    /\ moves' = moves + 1

NextGui == MouseDown \/ MouseUp \/ KeyDown \/ Quit \/ AiMove

SpecGui == InitGui /\ [][NextGui]_vars

\* The last pass was through the handler op and moved a piece on the board.
MovedBy(op) == last.op = op /\ board # last.pre

\* The variable turn gates the moves: a human move is committed only while
\* turn is 0, to a square listed for the piece when it was picked up, and
\* sets turn to 1; the move of the search is applied only while turn is 1
\* and sets turn to 0; nothing else writes turn.
TurnGates ==
    /\ MovedBy("MOUSEBUTTONUP")
         => /\ last.pre_gui.turn = 0
            /\ gui.turn = 1
            /\ last.mover = <<WHITE>>
            /\ last.picked # <<>>
            /\ \E pair \in Yielded(last.picked_on[1], WHITE) :
                  /\ pair[1].piece = last.picked[1]
                  /\ Position_str(pair[1].position) = cell_name_of(last.input)
    /\ MovedBy("ai")
         => /\ last.pre_gui.turn = 1
            /\ gui.turn = 0
            /\ last.mover = <<BLACK>>
    /\ (last.op \in {"MOUSEBUTTONDOWN", "MOUSEBUTTONUP"} /\ last.pre_gui.turn = 1)
         => board = last.pre /\ gui = last.pre_gui
    /\ last.op \in {"MOUSEBUTTONDOWN", "QUIT", "main", "KEYDOWN"}
         => gui.turn = last.pre_gui.turn

\* The side that moves a piece on the board is not the side that moved a
\* piece on that board last.
BoardAlternates ==
    /\ MovedBy("MOUSEBUTTONUP") => last.pre_mover # <<WHITE>>
    /\ MovedBy("ai") => last.pre_mover # <<BLACK>>

\* C31: in the loop moves strictly alternate: a human (White) move is
\* committed only while turn is 0, only to a destination listed in the
\* moves enumerated for the picked-up piece, and sets turn to 1; the AI
\* (Black) move is applied only while turn is 1 and sets turn to 0; in no
\* interleaving of mouse and key events does the same side move the board
\* twice in a row.
C31_TurnsAlternate == TurnGates /\ BoardAlternates

\* C32: pressing R restarts the game: whatever moves were played before,
\* after the key is handled the board is the initial position and it is
\* White's turn.
C32_Restart ==
    (last.op = "KEYDOWN" /\ last.input = "r")
    => board = NewBoard /\ gui.turn = 0

====
